---- MODULE Spec2Model ----
(***************************************************************************)
(* Mail-merge core of ZebraLegal/mailMerge: value coercion (to_number,     *)
(* try_parse_date, format_date_long, format_field_value) and the per-row   *)
(* context builder (create_context_from_row) of src/data_handler.py.       *)
(* Python strings are TLA+ strings; a character is a string of length 1.   *)
(***************************************************************************)
EXTENDS Integers, Sequences, FiniteSets, TLC

VARIABLES
    pc,              \* position of the call being modelled
    x,               \* argument of to_number
    n,               \* argument of ordinal_en
    raw_value,       \* argument of format_field_value
    template_field,  \* argument of format_field_value (name hint)
    target_lang,     \* language code
    loc,             \* LC_NUMERIC conventions in force (set by mailMerge.py)
    to_datetime,     \* pandas' answers for the string being parsed
    row,             \* data row of create_context_from_row
    field_mapping,   \* template field -> data column
    square_fields,   \* supplementary field records
    context,         \* the context being built
    date,            \* argument of format_date_long (dt)
    word_fields,     \* template fields given to create_field_mapping
    headers,         \* data column headers given to create_field_mapping
    df_data,         \* the dataset: [columns |-> names in order, rows |-> records]
    total_row,       \* totals row of the batch
    rows_all_with_total,  \* the dataset's records followed by the totals row
    index,           \* number of dataset rows the batch has rendered
    rendered,        \* contexts handed to the renderer, in order
    doc,             \* the Word document read by extract_placeholders
    name,            \* argument of is_valid_jinja_var
    curly_fields,    \* argument of validate_template_placeholders
    page,            \* st.session_state.page, as text
    uploaded_template,  \* the template file: st.session_state.uploaded_template
    file_uploader,   \* the file held by the template uploader of page 1
    uploaded_data,   \* the file held by the data uploader of page 2
    generated_files, \* paths of the documents the batch has saved, in order
    today,           \* pd.Timestamp.now().date(), as a day number
    prefix,          \* file name prefix
    primary_column,  \* column whose value personalises the file name
    secondary_column,   \* column used when the primary value is empty
    primary_value,   \* argument of create_safe_filename
    secondary_value, \* argument of create_safe_filename
    single_form_fields,       \* st.session_state.single_form_fields
    uploaded_template_single, \* st.session_state.uploaded_template_single
    ret              \* value returned by the call

vars == <<pc, x, n, raw_value, template_field, target_lang, loc, to_datetime,
          row, field_mapping, square_fields, context, date, word_fields, headers,
          df_data, total_row, rows_all_with_total, index, rendered, doc, name,
          curly_fields, page, uploaded_template, file_uploader, uploaded_data,
          generated_files, today, prefix, primary_column, secondary_column,
          primary_value, secondary_value, single_form_fields,
          uploaded_template_single, ret>>

-----------------------------------------------------------------------------
(* Characters and strings *)

\* U+202F NARROW NO-BREAK SPACE, written "^" (the lexer takes ASCII only; no
\* input holds a circumflex of its own)
THIN == "^"

Ch(s, i) == SubSeq(s, i, i)

DIGITS == "0123456789"

IsDigit(c) == \E i \in 1..10 : Ch(DIGITS, i) = c

DigitVal(c) == (CHOOSE i \in 1..10 : Ch(DIGITS, i) = c) - 1

IsSpace(c) == c \in {" ", THIN}

RECURSIVE AllDigits(_)
AllDigits(s) == IF s = "" THEN TRUE ELSE IsDigit(Head(s)) /\ AllDigits(Tail(s))

RECURSIVE lstrip(_)
lstrip(s) == IF s # "" /\ IsSpace(Head(s)) THEN lstrip(Tail(s)) ELSE s

RECURSIVE rstrip(_)
rstrip(s) ==
    IF s # "" /\ IsSpace(Ch(s, Len(s))) THEN rstrip(SubSeq(s, 1, Len(s) - 1)) ELSE s

strip(s) == rstrip(lstrip(s))

RECURSIVE replace(_, _, _)
replace(s, c, by) ==
    IF s = "" THEN ""
    ELSE (IF Head(s) = c THEN by ELSE Head(s)) \o replace(Tail(s), c, by)

RECURSIVE count(_, _)
count(s, c) ==
    IF s = "" THEN 0 ELSE (IF Head(s) = c THEN 1 ELSE 0) + count(Tail(s), c)

RECURSIVE NatStr(_)
NatStr(k) == IF k < 10 THEN Ch(DIGITS, k + 1) ELSE NatStr(k \div 10) \o Ch(DIGITS, (k % 10) + 1)

IntStr(k) == IF k < 0 THEN "-" \o NatStr(0 - k) ELSE NatStr(k)

RECURSIVE ZeroPad(_, _)
ZeroPad(s, w) == IF Len(s) >= w THEN s ELSE ZeroPad("0" \o s, w)

-----------------------------------------------------------------------------
(* Python values.  A number is kept in decimal: ip are the digits of the    *)
(* integer part (no leading zero), fp the digits of the fraction (no         *)
(* trailing zero), so v.is_integer() is fp = "".                             *)

None == [kind |-> "none"]

RECURSIVE StripLeadingZeros(_)
StripLeadingZeros(d) ==
    IF Len(d) > 1 /\ Head(d) = "0" THEN StripLeadingZeros(Tail(d))
    ELSE IF d = "" THEN "0" ELSE d

RECURSIVE StripTrailingZeros(_)
StripTrailingZeros(d) ==
    IF d # "" /\ Ch(d, Len(d)) = "0" THEN StripTrailingZeros(SubSeq(d, 1, Len(d) - 1))
    ELSE d

\* the float with sign neg, integer digits ip and fraction digits fp
PyFloat(neg, ip, fp) ==
    [kind |-> "float", sp |-> "", neg |-> neg,
     ip |-> StripLeadingZeros(ip), fp |-> StripTrailingZeros(fp)]

\* the int with sign neg and digits ip
PyInt(neg, ip) ==
    LET d == StripLeadingZeros(ip)
    IN [kind |-> "int", sp |-> "", neg |-> neg /\ d # "0", ip |-> d, fp |-> ""]

NaN == [kind |-> "float", sp |-> "nan", neg |-> FALSE, ip |-> "0", fp |-> ""]

Inf == [kind |-> "float", sp |-> "inf", neg |-> FALSE, ip |-> "0", fp |-> ""]

Str(s) == [kind |-> "str", s |-> s]

IsNumber(v) == v.kind \in {"int", "float"}

is_integer(v) == v.sp = "" /\ v.fp = ""

\* str(x) of the values a cell can hold
str(v) ==
    CASE v.kind = "str" -> v.s
      [] v.kind = "int" -> (IF v.neg THEN "-" ELSE "") \o v.ip
      [] v.kind = "float" /\ v.sp # "" -> v.sp
      [] v.kind = "float" /\ v.sp = "" ->
            (IF v.neg THEN "-" ELSE "") \o v.ip \o "." \o (IF v.fp = "" THEN "0" ELSE v.fp)
      [] v.kind = "nat" -> "NaT"
      [] v.kind = "date" ->
            ZeroPad(NatStr(v.y), 4) \o "-" \o ZeroPad(NatStr(v.m), 2) \o "-" \o
            ZeroPad(NatStr(v.d), 2) \o " 00:00:00"
      [] OTHER -> "None"

-----------------------------------------------------------------------------
(* to_number, src/data_handler.py:14-45 *)

\* re.match(r"^\d{1,3}(\.\d{3})+,\d+$", s): the part after the leading digits
RECURSIVE MatchGroups(_)
MatchGroups(s) ==
    /\ Len(s) >= 6
    /\ Ch(s, 1) = "."
    /\ AllDigits(SubSeq(s, 2, 4))
    /\ LET rest == SubSeq(s, 5, Len(s))
       IN \/ Ch(rest, 1) = "," /\ AllDigits(Tail(rest))
          \/ MatchGroups(rest)

MatchEuropean(s) ==
    \E h \in 1..3 :
        /\ Len(s) > h
        /\ AllDigits(SubSeq(s, 1, h))
        /\ MatchGroups(SubSeq(s, h + 1, Len(s)))

ValueError == [kind |-> "error"]

\* float(s) of Python for the characters the inputs are made of: surrounding
\* whitespace ignored, an optional sign, "nan"/"inf", else digits with at
\* most one "." (the inputs hold no exponent and no underscore)
float_parts(neg, ip, fp) ==
    IF AllDigits(ip) /\ AllDigits(fp) /\ Len(ip) + Len(fp) > 0
    THEN PyFloat(neg, ip, fp)
    ELSE ValueError

\* s with its only "." at position dot, or without "." when dot = 0
float_split(neg, s, dot) ==
    float_parts(neg,
                IF dot = 0 THEN s ELSE SubSeq(s, 1, dot - 1),
                IF dot = 0 THEN "" ELSE SubSeq(s, dot + 1, Len(s)))

float_unsigned(neg, s) ==
    IF s = "nan" THEN NaN
    ELSE IF s = "inf" THEN Inf
    ELSE IF count(s, ".") = 0 THEN float_split(neg, s, 0)
    ELSE IF count(s, ".") = 1
         THEN float_split(neg, s, CHOOSE i \in 1..Len(s) : Ch(s, i) = ".")
         ELSE ValueError

float_signed(t) ==
    float_unsigned(t # "" /\ Head(t) = "-",
                   IF t # "" /\ Head(t) \in {"-", "+"} THEN Tail(t) ELSE t)

float(s0) == float_signed(strip(s0))

\* to_number without the European grouped branch (lines 32-33 dropped)
to_number_NoEuropeanBranch(v) ==
    IF v.kind = "none" THEN None
    ELSE LET s0 == strip(str(v)) IN
         IF s0 = "" THEN None
         ELSE LET s1 == IF count(s0, ",") = 1 /\ count(s0, ".") = 0
                        THEN replace(s0, ",", ".")
                        ELSE s0
                  f == float(replace(replace(s1, THIN, ""), " ", ""))
              IN IF f = ValueError THEN None
                 ELSE IF is_integer(f) THEN PyInt(f.neg, f.ip) ELSE f

\* to_number that keeps separator spaces (line 39 dropped)
to_number_KeepSpaces(v) ==
    IF v.kind = "none" THEN None
    ELSE LET s0 == strip(str(v)) IN
         IF s0 = "" THEN None
         ELSE LET s == IF MatchEuropean(s0)
                       THEN replace(replace(s0, ".", ""), ",", ".")
                       ELSE IF count(s0, ",") = 1 /\ count(s0, ".") = 0
                            THEN replace(s0, ",", ".")
                            ELSE s0
                  f == float(s)
              IN IF f = ValueError THEN None
                 ELSE IF is_integer(f) THEN PyInt(f.neg, f.ip) ELSE f

\* to_number that returns the float as parsed (line 43 without the int case)
to_number_AlwaysFloat(v) ==
    IF v.kind = "none" THEN None
    ELSE LET s0 == strip(str(v)) IN
         IF s0 = "" THEN None
         ELSE LET s == IF MatchEuropean(s0)
                       THEN replace(replace(s0, ".", ""), ",", ".")
                       ELSE LET s1 == IF count(s0, ",") = 1 /\ count(s0, ".") = 0
                                      THEN replace(s0, ",", ".")
                                      ELSE s0
                            IN replace(replace(s1, THIN, ""), " ", "")
                  f == float(s)
              IN IF f = ValueError THEN None ELSE f

\* line 43
int_if_whole(f) ==
    IF f = ValueError THEN None
    ELSE IF is_integer(f) THEN PyInt(f.neg, f.ip) ELSE f

\* lines 36-39
comma_to_dot(s0) ==
    IF count(s0, ",") = 1 /\ count(s0, ".") = 0 THEN replace(s0, ",", ".") ELSE s0

\* lines 32-39: the text handed to float()
float_text(s0) ==
    IF MatchEuropean(s0)
    THEN replace(replace(s0, ".", ""), ",", ".")
    ELSE replace(replace(comma_to_dot(s0), THIN, ""), " ", "")

\* lines 27-45, s0 being str(x).strip()
to_number_text(s0) == IF s0 = "" THEN None ELSE int_if_whole(float(float_text(s0)))

to_number(v) == IF v.kind = "none" THEN None ELSE to_number_text(strip(str(v)))

-----------------------------------------------------------------------------
(* try_parse_date and format_date_long, src/data_handler.py:48-110 *)

NaT == [kind |-> "nat"]

Date(y, m, d) == [kind |-> "date", y |-> y, m |-> m, d |-> d]

\* pd.isna / pd.notna of a scalar
isna(v) == v.kind \in {"none", "nat"} \/ (v.kind = "float" /\ v.sp = "nan")

notna(v) == ~isna(v)

\* pd.to_datetime(v, dayfirst=dayfirst, errors='coerce'): the library's answer
\* for the text v, a Date or NaT
pd_to_datetime(v, dayfirst) == to_datetime[v][dayfirst]

try_parse_date(val) ==
    IF val.kind \in {"date", "nat"} THEN val
    ELSE IF val.kind = "str"
         THEN LET v == strip(val.s) IN
              IF v = "" THEN None
              ELSE IF notna(pd_to_datetime(v, TRUE)) THEN pd_to_datetime(v, TRUE)
              ELSE IF notna(pd_to_datetime(v, FALSE)) THEN pd_to_datetime(v, FALSE)
              ELSE None
         ELSE None

MONTHS_EN ==
    <<"January", "February", "March", "April", "May", "June",
      "July", "August", "September", "October", "November", "December">>

MONTHS_NL ==
    <<"januari", "februari", "maart", "april", "mei", "juni",
      "juli", "augustus", "september", "oktober", "november", "december">>

(* ordinal_en, src/data_handler.py:83-90 *)

\* ordinal_en without the 11-13 exception
ordinal_en_NoTeens(k) ==
    LET suffix == CASE k % 10 = 1 -> "st"
                    [] k % 10 = 2 -> "nd"
                    [] k % 10 = 3 -> "rd"
                    [] OTHER -> "th"
    IN IntStr(k) \o suffix

ordinal_en(k) ==
    LET suffix == IF 10 < k % 100 /\ k % 100 < 14 THEN "th"
                  ELSE CASE k % 10 = 1 -> "st"
                         [] k % 10 = 2 -> "nd"
                         [] k % 10 = 3 -> "rd"
                         [] OTHER -> "th"
    IN IntStr(k) \o suffix

\* format_date_long that writes the day with two digits
format_date_long_PaddedDay(dt, lang) ==
    IF lang = "NL"
    THEN ZeroPad(IntStr(dt.d), 2) \o " " \o MONTHS_NL[dt.m] \o " " \o IntStr(dt.y)
    ELSE IF lang = "US"
         THEN MONTHS_EN[dt.m] \o " " \o ordinal_en(dt.d) \o ", " \o IntStr(dt.y)
         ELSE ZeroPad(IntStr(dt.d), 2) \o " " \o MONTHS_EN[dt.m] \o " " \o IntStr(dt.y)

format_date_long(dt, lang) ==
    IF lang = "NL" THEN IntStr(dt.d) \o " " \o MONTHS_NL[dt.m] \o " " \o IntStr(dt.y)
    ELSE IF lang = "US"
         THEN MONTHS_EN[dt.m] \o " " \o ordinal_en(dt.d) \o ", " \o IntStr(dt.y)
         ELSE IntStr(dt.d) \o " " \o MONTHS_EN[dt.m] \o " " \o IntStr(dt.y)

-----------------------------------------------------------------------------
(* format_field_value, src/data_handler.py:175-212 *)

UPPERCASE == "ABCDEFGHIJKLMNOPQRSTUVWXYZ"

LOWERCASE == "abcdefghijklmnopqrstuvwxyz"

RECURSIVE lower(_)
lower(s) ==
    IF s = "" THEN ""
    ELSE LET c == Head(s) IN
         (IF \E i \in 1..26 : Ch(UPPERCASE, i) = c
          THEN Ch(LOWERCASE, CHOOSE i \in 1..26 : Ch(UPPERCASE, i) = c)
          ELSE c) \o lower(Tail(s))

\* sub in s
contains(s, sub) == \E i \in 1..(Len(s) - Len(sub) + 1) : SubSeq(s, i, i + Len(sub) - 1) = sub

startswith(s, pre) == Len(s) >= Len(pre) /\ SubSeq(s, 1, Len(pre)) = pre

\* digits + 1, as decimal text
RECURSIVE IncrDigits(_)
IncrDigits(d) ==
    IF d = "" THEN "1"
    ELSE LET c == Ch(d, Len(d))
             init == SubSeq(d, 1, Len(d) - 1)
         IN IF c = "9" THEN IncrDigits(init) \o "0"
            ELSE init \o Ch(DIGITS, DigitVal(c) + 2)

\* locale._group: the digits in groups of loc.grouping from the right
RECURSIVE group(_)
group(d) ==
    IF loc.grouping = 0 \/ Len(d) <= loc.grouping THEN d
    ELSE group(SubSeq(d, 1, Len(d) - loc.grouping)) \o loc.thousands_sep \o
         SubSeq(d, Len(d) - loc.grouping + 1, Len(d))

\* locale.format_string('%.2f', float(num), grouping=True); a third decimal of
\* 5 or more rounds up (the cells hold no exact binary tie)
locale_format_2f(num) ==
    IF num.sp # "" THEN num.sp
    ELSE LET f2 == SubSeq(num.fp \o "00", 1, 2)
             up == Len(num.fp) > 2 /\ DigitVal(Ch(num.fp, 3)) >= 5
             cents == ZeroPad(IF up THEN IncrDigits(num.ip \o f2) ELSE num.ip \o f2, 3)
         IN (IF num.neg THEN "-" ELSE "") \o
            group(SubSeq(cents, 1, Len(cents) - 2)) \o loc.decimal_point \o
            SubSeq(cents, Len(cents) - 1, Len(cents))

EURO == "€"

IsNumberLike(fld) ==
    contains(fld, "number") \/ contains(fld, "#") \/ contains(fld, "count")
        \/ startswith(fld, "aantal")

IsAmountLike(fld) == contains(fld, "amount") \/ contains(fld, "bedrag")

\* format_field_value that tries the number before the date
format_field_value_NumberFirst(raw, field, lang) ==
    IF isna(raw) THEN ""
    ELSE LET dt == try_parse_date(raw)
             num == to_number(raw)
             fld == lower(field)
         IN IF num # None
            THEN IF IsNumberLike(fld) THEN str(num)
                 ELSE IF IsAmountLike(fld) THEN EURO \o locale_format_2f(num)
                 ELSE locale_format_2f(num)
            ELSE IF dt # None THEN format_date_long(dt, lang)
            ELSE str(raw)

\* lines 192-212, with dt, num and fld as computed on lines 191, 196 and 197
format_value(raw, dt, num, fld, lang) ==
    IF dt # None THEN format_date_long(dt, lang)
    ELSE IF num # None
         THEN IF IsNumberLike(fld)
              THEN IF num.kind = "float" /\ is_integer(num)
                   THEN str(PyInt(num.neg, num.ip)) ELSE str(num)
              ELSE IF IsAmountLike(fld) THEN EURO \o locale_format_2f(num)
              ELSE IF num.kind = "float" /\ is_integer(num)
                   THEN str(PyInt(num.neg, num.ip))
                   ELSE locale_format_2f(num)
         ELSE str(raw)

\* format_field_value that prints the missing number, str(num), where the
\* value is neither a date nor a number
format_field_value_NoFallback(raw, field, lang) ==
    IF isna(raw) THEN ""
    ELSE IF try_parse_date(raw) = None /\ to_number(raw) = None THEN "None"
    ELSE format_value(raw, try_parse_date(raw), to_number(raw), lower(field), lang)

format_field_value(raw, field, lang) ==
    IF isna(raw) THEN ""
    ELSE format_value(raw, try_parse_date(raw), to_number(raw), lower(field), lang)

-----------------------------------------------------------------------------
(* create_context_from_row, src/data_handler.py:259-303.  A data row is       *)
(* [index |-> column names in order, value |-> column -> cell]; a dict is a   *)
(* function from its keys.                                                    *)

\* template_processor.normalize
RECURSIVE RemoveSpaceUnderscore(_)
RemoveSpaceUnderscore(s) ==
    IF s = "" THEN ""
    ELSE (IF IsSpace(Head(s)) \/ Head(s) = "_" THEN "" ELSE Head(s))
         \o RemoveSpaceUnderscore(Tail(s))

normalize(text) == RemoveSpaceUnderscore(lower(strip(text)))

Range(f) == {f[i] : i \in DOMAIN f}

\* d[k] = v
Put(d, k, v) == [kk \in DOMAIN d \cup {k} |-> IF kk = k THEN v ELSE d[kk]]

\* {normalize(str(k)): row[k] for k in row.index}: a later column wins
NormRow(r) ==
    [nk \in {normalize(r.index[i]) : i \in DOMAIN r.index} |->
        LET last == CHOOSE i \in DOMAIN r.index :
                        /\ normalize(r.index[i]) = nk
                        /\ \A j \in DOMAIN r.index : normalize(r.index[j]) = nk => j <= i
        IN r.value[r.index[last]]]

\* lines 279-285
MappedContext(r, mapping, lang) ==
    [tf \in DOMAIN mapping |->
        IF mapping[tf] # "" /\ mapping[tf] \in Range(r.index)
        THEN LET raw == r.value[mapping[tf]]
                 value == format_field_value(raw, tf, lang)
             IN IF notna(raw) THEN value ELSE ""
        ELSE ""]

ROW_PREFIX == "row."

\* lines 288-289 run over the growing context instead of the snapshot: the
\* aliases get aliases of their own
AliasedContext_Realiased(ctx) ==
    LET once == [k \in DOMAIN ctx \cup {ROW_PREFIX \o key : key \in DOMAIN ctx} |->
                    IF \E key \in DOMAIN ctx : ROW_PREFIX \o key = k
                    THEN ctx[CHOOSE key \in DOMAIN ctx : ROW_PREFIX \o key = k]
                    ELSE ctx[k]]
    IN [k \in DOMAIN once \cup {ROW_PREFIX \o key : key \in DOMAIN once} |->
           IF \E key \in DOMAIN once : ROW_PREFIX \o key = k
           THEN once[CHOOSE key \in DOMAIN once : ROW_PREFIX \o key = k]
           ELSE once[k]]

\* lines 288-289: every key of the snapshot is written under "row." + key
AliasedContext(ctx) ==
    [k \in DOMAIN ctx \cup {ROW_PREFIX \o key : key \in DOMAIN ctx} |->
        IF \E key \in DOMAIN ctx : ROW_PREFIX \o key = k
        THEN ctx[CHOOSE key \in DOMAIN ctx : ROW_PREFIX \o key = k]
        ELSE ctx[k]]

\* lines 295-297 with the lookup made by the display name itself
SquareValue_ByDisplayName(veldnaam, norm_row, lang) ==
    format_field_value(
        IF veldnaam \in DOMAIN norm_row THEN norm_row[veldnaam] ELSE Str(""),
        veldnaam, lang)

\* lines 292-298: every record with "Opnemen als veld?" True writes its
\* formatted value under its Veldnaam (records of one name write one value)
SquareValue(veldnaam, norm_row, lang) ==
    format_field_value(
        IF normalize(veldnaam) \in DOMAIN norm_row THEN norm_row[normalize(veldnaam)]
        ELSE Str(""),
        veldnaam, lang)

SquareContext(ctx, fields, norm_row, lang) ==
    LET included == {fields[i].Veldnaam : i \in {j \in DOMAIN fields : fields[j].Opnemen = "True"}}
    IN [k \in DOMAIN ctx \cup included |->
           IF k \in included THEN SquareValue(k, norm_row, lang) ELSE ctx[k]]

\* the keys of norm_row in the order a dict keeps them: a normalized name stands
\* where its first column stands
NormKeys(r) ==
    LET firsts == SelectSeq([i \in DOMAIN r.index |-> i],
                            LAMBDA i : \A j \in 1..(i - 1) :
                                normalize(r.index[j]) # normalize(r.index[i]))
    IN [p \in DOMAIN firsts |-> normalize(r.index[firsts[p]])]

\* line 126 with the text test made on the cell's text as it stands
cleaned_value_ExactText(v) ==
    IF v.kind = "none" \/ (v.kind = "float" /\ v.sp = "nan") \/ str(v) = "nan"
    THEN Str("") ELSE v

\* line 126-129: the value rows_one keeps for the cell v
cleaned_value(v) ==
    IF v.kind = "none" \/ (v.kind = "float" /\ v.sp = "nan")
          \/ lower(strip(str(v))) = "nan"
    THEN Str("") ELSE v

\* lines 124-132: record is read in the order of keys; each key writes its bare
\* entry and its "row." entry, a later write replacing an earlier one
RECURSIVE cleaned_after(_, _, _)
cleaned_after(record, keys, upto) ==
    IF upto = 0 THEN <<>>
    ELSE LET k == keys[upto]
             val == cleaned_value(record[k])
         IN Put(Put(cleaned_after(record, keys, upto - 1), k, val), ROW_PREFIX \o k, val)

reshape_wide_to_rows(record, keys) == <<cleaned_after(record, keys, Len(keys))>>

-----------------------------------------------------------------------------
(* Bounds and input sets *)

MaxLen == 4      \* longest free-form cell text
MaxGroups == 2   \* thousands groups of a European grouped number
MaxFrac == 2     \* decimal digits of a European grouped number
MaxCommaLen == 5 \* longest one-comma text
MaxN == 131      \* largest ordinal

RECURSIVE StringsOfLen(_, _)
StringsOfLen(A, k) ==
    IF k = 0 THEN {""} ELSE {s \o c : s \in StringsOfLen(A, k - 1), c \in A}

StringsUpTo(A, k) == UNION {StringsOfLen(A, j) : j \in 0..k}

CellDigits == {"0", "5"}

CellAlphabet == CellDigits \cup {".", ",", " ", THIN, "a", "n"}

RECURSIVE EuropeanGroups(_)
EuropeanGroups(g) ==
    IF g = 0 THEN {""}
    ELSE {"." \o d \o r : d \in StringsOfLen(CellDigits, 3), r \in EuropeanGroups(g - 1)}

EuropeanStrings ==
    {"1.234,56"} \cup
    {h \o g \o "," \o f :
        h \in StringsUpTo(CellDigits, 3) \ {""},
        g \in UNION {EuropeanGroups(j) : j \in 1..MaxGroups},
        f \in StringsUpTo(CellDigits, MaxFrac) \ {""}}

OneCommaStrings ==
    {"12,5"} \cup
    {s \in StringsUpTo(CellDigits \cup {",", " ", THIN}, MaxCommaLen) : count(s, ",") = 1}

NumberCells ==
    {PyInt(FALSE, "0"), PyInt(FALSE, "3"), PyInt(FALSE, "1500"), PyInt(TRUE, "5"),
     PyFloat(FALSE, "3", "0"), PyFloat(FALSE, "3", "5"), PyFloat(FALSE, "12", "5"), NaN}

NumInputs ==
    {None} \cup NumberCells \cup
    {Str(s) : s \in StringsUpTo(CellAlphabet, MaxLen) \cup {"abc", "3,0", "3", "3,5", "1.234,56"}}

\* LC_NUMERIC after mailMerge.py:11-16: nl_NL, or the C locale when no nl_NL is
\* installed
NL_LOCALE == [decimal_point |-> ",", thousands_sep |-> ".", grouping |-> 3]

C_LOCALE == [decimal_point |-> ".", thousands_sep |-> "", grouping |-> 0]

Locales == {NL_LOCALE, C_LOCALE}

Languages == {"NL", "US", "UK", "DE"}

FieldNames ==
    {"Naam", "Bedrag", "Amount", "Aantal_kinderen", "Count", "Factuur#",
     "amount_number", "Totaalbedrag", "Datum"}

DateCells == {Date(2024, 3, 5), Date(2023, 12, 21)}

\* what pd.to_datetime may answer for a text
DateAnswers == {NaT, Date(2024, 1, 1), Date(2024, 4, 3)}

TextCells == {"", " ", "abc", "3", "1500", "2024", "12,5", "1.234,56", "03/04/2024", "nan"}

FormatNumberCells ==
    {PyInt(FALSE, "3"), PyInt(FALSE, "1500"), PyInt(FALSE, "1234567"),
     PyFloat(FALSE, "3", "0"), PyFloat(FALSE, "3", "5"), PyFloat(FALSE, "12", "5"),
     PyFloat(FALSE, "1234", "56"), PyFloat(FALSE, "0", "996")}

FormatInputs ==
    {None, NaN, NaT} \cup DateCells \cup FormatNumberCells \cup {Str(s) : s \in TextCells}

MaxSquare == 1   \* most supplementary fields

TemplateFields == {"Naam", "row.Naam"}

DataColumns == <<"Naam", "Bedrag">>

\* what a template field can be mapped to: nothing, a column, a column that the
\* row does not have
MappingTargets == {""} \cup Range(DataColumns) \cup {"Vervallen"}

FieldMappings == UNION {[F -> MappingTargets] : F \in SUBSET TemplateFields}

\* the cells a column can hold: a text or the missing-cell NaN
RowCells == [Naam |-> {Str("Jan"), NaN}, Bedrag |-> {Str("2024")}]

DataRows ==
    {[index |-> DataColumns, value |-> v] :
        v \in {w \in [Range(DataColumns) -> UNION Range(RowCells)] :
                  \A c \in Range(DataColumns) : w[c] \in RowCells[c]}}

RowTexts(r) == {strip(r.value[c].s) : c \in {d \in Range(r.index) : r.value[d].kind = "str"}}

SquareNames == {"Naam", "naam ", "Opmerking"}

\* "Opnemen als veld?" holds the Python value named by the text
SquareRecords == [Veldnaam : SquareNames, Opnemen : {"True", "False"}]

SquareLists == UNION {[1..k -> SquareRecords] : k \in 0..MaxSquare}

-----------------------------------------------------------------------------
(* Calls.  A call sits at pc = <function name> with its arguments in the    *)
(* variables and moves to "returned" with the result in ret.                *)

NoNumCall == x = None

NoOrdCall == n = 0

NoFmtCall ==
    /\ raw_value = None
    /\ template_field = ""
    /\ to_datetime = <<>>

NoCtxCall ==
    /\ row = <<>>
    /\ field_mapping = <<>>
    /\ square_fields = <<>>
    /\ context = <<>>

NoLocale == target_lang = "UK" /\ loc = C_LOCALE

NoDateCall == date = None

NoMapCall == word_fields = <<>> /\ headers = <<>>

NoBatchCall == total_row = <<>> /\ rows_all_with_total = <<>> /\ index = 0 /\ rendered = <<>>

NoDataCall == df_data = <<>> /\ NoBatchCall

NoTemplateCall == doc = <<>> /\ name = "" /\ curly_fields = <<>>

NoWizardRun ==
    /\ page = "1"
    /\ uploaded_template = None
    /\ file_uploader = None
    /\ uploaded_data = None
    /\ single_form_fields = <<>>
    /\ uploaded_template_single = None

NoFileName ==
    /\ generated_files = <<>>
    /\ today = 0
    /\ prefix = ""
    /\ primary_column = "" /\ secondary_column = ""
    /\ primary_value = None /\ secondary_value = None

NoLaterCall == NoWizardRun /\ NoFileName

\* the calls of the later sections are not in progress
NoOtherCall == NoDateCall /\ NoMapCall /\ NoDataCall /\ NoTemplateCall

InitNumber(inputs) ==
    /\ pc = "to_number"
    /\ x \in inputs
    /\ ret = None
    /\ NoOrdCall /\ NoFmtCall /\ NoCtxCall /\ NoLocale
    /\ NoOtherCall
    /\ NoLaterCall

ToNumber ==
    /\ pc = "to_number"
    /\ ret' = to_number(x)
    /\ pc' = "returned"
    /\ UNCHANGED <<page, uploaded_template, file_uploader, uploaded_data,
                   generated_files, today, prefix, primary_column, secondary_column,
                   primary_value, secondary_value,
                   single_form_fields, uploaded_template_single,
                   date, word_fields, headers, df_data, total_row, rows_all_with_total,
                   index, rendered, doc, name, curly_fields,
                   x, n, raw_value, template_field, target_lang, loc, to_datetime,
                   row, field_mapping, square_fields, context>>

InitEuropean == InitNumber({Str(s) : s \in EuropeanStrings})
SpecEuropean == InitEuropean /\ [][ToNumber]_vars

InitOneComma == InitNumber({Str(s) : s \in OneCommaStrings})
SpecOneComma == InitOneComma /\ [][ToNumber]_vars

InitNum == InitNumber(NumInputs)
SpecNum == InitNum /\ [][ToNumber]_vars

InitOrdinal ==
    /\ pc = "ordinal_en"
    /\ n \in 1..MaxN
    /\ ret = None
    /\ NoNumCall /\ NoFmtCall /\ NoCtxCall /\ NoLocale
    /\ NoOtherCall
    /\ NoLaterCall

OrdinalEn ==
    /\ pc = "ordinal_en"
    /\ ret' = ordinal_en(n)
    /\ pc' = "returned"
    /\ UNCHANGED <<page, uploaded_template, file_uploader, uploaded_data,
                   generated_files, today, prefix, primary_column, secondary_column,
                   primary_value, secondary_value,
                   single_form_fields, uploaded_template_single,
                   date, word_fields, headers, df_data, total_row, rows_all_with_total,
                   index, rendered, doc, name, curly_fields,
                   x, n, raw_value, template_field, target_lang, loc, to_datetime,
                   row, field_mapping, square_fields, context>>

SpecOrdinal == InitOrdinal /\ [][OrdinalEn]_vars

InitFormat ==
    /\ pc = "format_field_value"
    /\ raw_value \in FormatInputs
    /\ template_field \in FieldNames
    /\ target_lang \in Languages
    /\ loc \in Locales
    /\ to_datetime \in
         IF raw_value.kind = "str"
         THEN [{strip(raw_value.s)} -> [BOOLEAN -> DateAnswers]]
         ELSE {<<>>}
    /\ ret = None
    /\ NoNumCall /\ NoOrdCall /\ NoCtxCall
    /\ NoOtherCall
    /\ NoLaterCall

FormatFieldValue ==
    /\ pc = "format_field_value"
    /\ ret' = format_field_value(raw_value, template_field, target_lang)
    /\ pc' = "returned"
    /\ UNCHANGED <<page, uploaded_template, file_uploader, uploaded_data,
                   generated_files, today, prefix, primary_column, secondary_column,
                   primary_value, secondary_value,
                   single_form_fields, uploaded_template_single,
                   date, word_fields, headers, df_data, total_row, rows_all_with_total,
                   index, rendered, doc, name, curly_fields,
                   x, n, raw_value, template_field, target_lang, loc, to_datetime,
                   row, field_mapping, square_fields, context>>

SpecFormat == InitFormat /\ [][FormatFieldValue]_vars

InitContext ==
    /\ pc = "create_context_from_row"
    /\ row \in DataRows
    /\ field_mapping \in FieldMappings
    /\ square_fields \in SquareLists
    /\ target_lang \in {"NL", "UK"}
    /\ loc \in Locales
    /\ to_datetime \in [RowTexts(row) -> {[b \in BOOLEAN |-> a] : a \in {NaT, Date(2024, 1, 1)}}]
    /\ context = <<>>
    /\ ret = None
    /\ NoNumCall /\ NoOrdCall
    /\ raw_value = None /\ template_field = ""
    /\ NoOtherCall
    /\ NoLaterCall

\* lines 273-285
MappingPass ==
    /\ pc = "create_context_from_row"
    /\ context' = MappedContext(row, field_mapping, target_lang)
    /\ pc' = "aliases"
    /\ UNCHANGED <<page, uploaded_template, file_uploader, uploaded_data,
                   generated_files, today, prefix, primary_column, secondary_column,
                   primary_value, secondary_value,
                   single_form_fields, uploaded_template_single,
                   date, word_fields, headers, df_data, total_row, rows_all_with_total,
                   index, rendered, doc, name, curly_fields,
                   x, n, raw_value, template_field, target_lang, loc, to_datetime,
                   row, field_mapping, square_fields, ret>>

\* lines 287-289
AliasPass ==
    /\ pc = "aliases"
    /\ context' = AliasedContext(context)
    /\ pc' = "square_fields"
    /\ UNCHANGED <<page, uploaded_template, file_uploader, uploaded_data,
                   generated_files, today, prefix, primary_column, secondary_column,
                   primary_value, secondary_value,
                   single_form_fields, uploaded_template_single,
                   date, word_fields, headers, df_data, total_row, rows_all_with_total,
                   index, rendered, doc, name, curly_fields,
                   x, n, raw_value, template_field, target_lang, loc, to_datetime,
                   row, field_mapping, square_fields, ret>>

\* lines 291-298 with the list consumed: a record that was handled is taken off
\* square_fields
SquarePass_ConsumesFields ==
    /\ pc = "square_fields"
    /\ context' = SquareContext(context, square_fields, NormRow(row), target_lang)
    /\ square_fields' = <<>>
    /\ pc' = "rows_one"
    /\ UNCHANGED <<page, uploaded_template, file_uploader, uploaded_data,
                   generated_files, today, prefix, primary_column, secondary_column,
                   primary_value, secondary_value,
                   single_form_fields, uploaded_template_single,
                   date, word_fields, headers, df_data, total_row, rows_all_with_total,
                   index, rendered, doc, name, curly_fields,
                   x, n, raw_value, template_field, target_lang, loc, to_datetime,
                   row, field_mapping, ret>>

\* lines 291-298
SquarePass ==
    /\ pc = "square_fields"
    /\ context' = SquareContext(context, square_fields, NormRow(row), target_lang)
    /\ pc' = "rows_one"
    /\ UNCHANGED <<page, uploaded_template, file_uploader, uploaded_data,
                   generated_files, today, prefix, primary_column, secondary_column,
                   primary_value, secondary_value,
                   single_form_fields, uploaded_template_single,
                   date, word_fields, headers, df_data, total_row, rows_all_with_total,
                   index, rendered, doc, name, curly_fields,
                   x, n, raw_value, template_field, target_lang, loc, to_datetime,
                   row, field_mapping, square_fields, ret>>

\* lines 300-303
RowsOne ==
    /\ pc = "rows_one"
    /\ context' = Put(context, "rows_one", reshape_wide_to_rows(NormRow(row), NormKeys(row)))
    /\ ret' = context'
    /\ pc' = "returned"
    /\ UNCHANGED <<page, uploaded_template, file_uploader, uploaded_data,
                   generated_files, today, prefix, primary_column, secondary_column,
                   primary_value, secondary_value,
                   single_form_fields, uploaded_template_single,
                   date, word_fields, headers, df_data, total_row, rows_all_with_total,
                   index, rendered, doc, name, curly_fields,
                   x, n, raw_value, template_field, target_lang, loc, to_datetime,
                   row, field_mapping, square_fields>>

Next == MappingPass \/ AliasPass \/ SquarePass \/ RowsOne

Spec == InitContext /\ [][Next]_vars

-----------------------------------------------------------------------------
(* Properties of to_number *)

RECURSIVE OnlyDigits(_)
OnlyDigits(s) ==
    IF s = "" THEN ""
    ELSE (IF IsDigit(Head(s)) THEN Head(s) ELSE "") \o OnlyDigits(Tail(s))

CommaAt(s) == CHOOSE i \in 1..Len(s) : Ch(s, i) = ","

\* the number written by s when its one comma is the decimal point and every
\* other non-digit is a separator
CommaDecimal(s) ==
    LET ip == OnlyDigits(SubSeq(s, 1, CommaAt(s) - 1))
        fp == OnlyDigits(SubSeq(s, CommaAt(s) + 1, Len(s)))
    IN IF StripTrailingZeros(fp) = "" THEN PyInt(FALSE, ip) ELSE PyFloat(FALSE, ip, fp)

\* C6: for every European grouped text (1-3 digits, groups of "." and three
\* digits, "," and decimals) to_number returns the number obtained by deleting
\* every "." and reading "," as the decimal point; "1.234,56" gives 1234.56.
C6_EuropeanGrouped ==
    (pc = "returned" /\ x.kind = "str" /\ x.s \in EuropeanStrings) =>
        /\ ret = CommaDecimal(x.s)
        /\ (x.s = "1.234,56" => ret = PyFloat(FALSE, "1234", "56"))

C6_Witness ==
    pc = "returned" /\ x = Str("5.005.050,5") /\ ret = PyFloat(FALSE, "5005050", "5")

\* C7: for every text with exactly one comma, no dot and otherwise only digits
\* and plain or thin spaces, to_number reads the comma as the decimal point
\* and ignores the spaces; "12,5" gives 12.5.  A text without any digit is not
\* a number.
C7_CommaIsDecimal ==
    (pc = "returned" /\ x.kind = "str" /\ x.s \in OneCommaStrings) =>
        /\ ret = (IF OnlyDigits(x.s) = "" THEN None ELSE CommaDecimal(x.s))
        /\ (x.s = "12,5" => ret = PyFloat(FALSE, "12", "5"))

C7_Witness ==
    pc = "returned" /\ x = Str("5" \o THIN \o "0,5") /\ ret = PyFloat(FALSE, "50", "5")

\* C8: to_number returns None for a missing input (None or the NaN sentinel),
\* for empty or whitespace-only text and for text that is no number ("abc"),
\* and whatever it returns otherwise is a finite number.
C8_NotNumeric ==
    pc = "returned" =>
        /\ (x \in {None, NaN} => ret = None)
        /\ (x.kind = "str" /\ strip(x.s) = "" => ret = None)
        /\ (x = Str("abc") => ret = None)
        /\ (ret # None => IsNumber(ret) /\ ret.sp = "")

\* C9: a successful to_number returns an int exactly when the value is whole and
\* otherwise a float of the same value: "3,0" and "3" give int 3, "3,5" gives
\* float 3.5, and a numeric cell keeps its value.
C9_IntIffWhole ==
    (pc = "returned" /\ ret # None) =>
        /\ IsNumber(ret)
        /\ (ret.kind = "int" <=> is_integer(ret))
        /\ (x \in {Str("3,0"), Str("3")} => ret = PyInt(FALSE, "3"))
        /\ (x = Str("3,5") => ret = PyFloat(FALSE, "3", "5"))
        /\ (x \in NumberCells /\ x.sp = "" =>
                /\ ret.neg = x.neg /\ ret.ip = x.ip /\ ret.fp = x.fp)

C9_Witness ==
    pc = "returned" /\ x = Str("3,0") /\ ret = PyInt(FALSE, "3")

-----------------------------------------------------------------------------
(* Properties of ordinal_en *)

EnglishSuffix(k) ==
    IF k % 100 \in {11, 12, 13} THEN "th"
    ELSE IF k % 10 = 1 THEN "st"
    ELSE IF k % 10 = 2 THEN "nd"
    ELSE IF k % 10 = 3 THEN "rd"
    ELSE "th"

\* C10: ordinal_en(n) is n followed by the English ordinal suffix: "th" when
\* n mod 100 is 11, 12 or 13, else "st"/"nd"/"rd" for n mod 10 = 1/2/3, else
\* "th"; in particular 1st, 2nd, 3rd, 11th, 12th, 21st.
C10_OrdinalRules ==
    pc = "returned" =>
        /\ ret = IntStr(n) \o EnglishSuffix(n)
        /\ (n = 1 => ret = "1st") /\ (n = 2 => ret = "2nd") /\ (n = 3 => ret = "3rd")
        /\ (n = 11 => ret = "11th") /\ (n = 12 => ret = "12th") /\ (n = 21 => ret = "21st")

C10_Witness == pc = "returned" /\ n = 112 /\ ret = "112th"

-----------------------------------------------------------------------------
(* Properties of format_field_value *)

\* the date a raw value stands for: a date cell itself, or the first answer of
\* the day-first and month-first parses of a non-blank text
ParsedDate(raw) ==
    IF raw.kind = "date" THEN raw
    ELSE IF raw.kind = "str" /\ strip(raw.s) # ""
         THEN LET a == to_datetime[strip(raw.s)]
              IN IF a[TRUE] # NaT THEN a[TRUE] ELSE IF a[FALSE] # NaT THEN a[FALSE] ELSE None
         ELSE None

\* a present value that is no date and that to_number reads as a finite number
NumericNonDate(raw) ==
    /\ notna(raw)
    /\ ParsedDate(raw) = None
    /\ to_number(raw) # None
    /\ to_number(raw).sp = ""

\* text made of digits only, with an optional minus sign
IntegerOnly(s) ==
    /\ s # ""
    /\ IF Head(s) = "-" THEN Tail(s) # "" /\ AllDigits(Tail(s)) ELSE AllDigits(s)

\* C3: for a numeric non-date value and a number-like field name ("number",
\* "#", "count" in the lower-cased name, or a leading "aantal") the result is
\* the integer-only display, without decimal part and without euro sign, also
\* when the name is amount-like too; format_field_value(3.0,
\* "Aantal_kinderen", "UK") = "3".
C3_NumberLikeIntegerOnly ==
    (pc = "returned" /\ NumericNonDate(raw_value)
        /\ IsNumberLike(lower(template_field))) =>
        /\ IntegerOnly(ret)
        /\ (raw_value = PyFloat(FALSE, "3", "0") /\ template_field = "Aantal_kinderen"
                => ret = "3")

\* C4: a value that parses as a date is returned as format_date_long of that
\* date, whatever the field name and whether or not to_number accepts the
\* value too; the numeric and raw-text results occur only without a date.
C4_DateBeforeNumber ==
    pc = "returned" =>
        /\ (notna(raw_value) /\ ParsedDate(raw_value) # None
                => ret = format_date_long(ParsedDate(raw_value), target_lang))
        /\ (notna(raw_value) /\ ret = str(raw_value) /\ raw_value.kind = "str"
                /\ strip(raw_value.s) # ""
                => ParsedDate(raw_value) = None)

C4_Witness ==
    /\ pc = "returned"
    /\ raw_value = Str("2024")
    /\ template_field = "Bedrag"
    /\ to_number(raw_value) = PyInt(FALSE, "2024")
    /\ target_lang = "UK"
    /\ ret = "1 January 2024"

\* C5: for a numeric non-date value, an amount-like name ("amount" or "bedrag")
\* that is not number-like gives the euro sign followed by the two-decimal
\* grouped form; any other name that is not number-like gives a whole number
\* without decimals and a non-whole number with two decimals and grouping.
C5_CurrencyAndPlain ==
    (pc = "returned" /\ NumericNonDate(raw_value)
        /\ ~IsNumberLike(lower(template_field))) =>
        LET num == to_number(raw_value) IN
        IF IsAmountLike(lower(template_field))
        THEN ret = EURO \o locale_format_2f(num)
        ELSE IF num.fp = "" THEN IntegerOnly(ret) ELSE ret = locale_format_2f(num)

-----------------------------------------------------------------------------
(* Properties of create_context_from_row *)

IncludedSquareNames ==
    {square_fields[i].Veldnaam : i \in {j \in DOMAIN square_fields : square_fields[j].Opnemen = "True"}}

\* the keys the builder adds on its own account: the mapped template fields,
\* the included supplementary fields and rows_one
DirectKeys == DOMAIN field_mapping \cup IncludedSquareNames \cup {"rows_one"}

\* C1: in the returned context every key k the builder adds (mapped template
\* field, included supplementary field, rows_one) has the alias "row." + k with
\* the identical value.
C1_DualAddressing ==
    pc = "returned" =>
        \A k \in DirectKeys :
            /\ k \in DOMAIN ret
            /\ (ROW_PREFIX \o k) \in DOMAIN ret
            /\ ret[ROW_PREFIX \o k] = ret[k]

\* C2: in the returned context every mapped template field holds
\* format_field_value of its column's cell (with the field name as hint), or ""
\* when the cell is missing, the column is unmapped or the row has no such
\* column; no later step of the builder changes it.
C2_MappedValueIsFinal ==
    pc = "returned" =>
        \A tf \in DOMAIN field_mapping :
            /\ tf \in DOMAIN ret
            /\ ret[tf] =
                 IF field_mapping[tf] # "" /\ field_mapping[tf] \in Range(row.index)
                 THEN IF isna(row.value[field_mapping[tf]]) THEN ""
                      ELSE format_field_value(row.value[field_mapping[tf]], tf, target_lang)
                 ELSE ""

-----------------------------------------------------------------------------
(* format_date_long called on its own, src/data_handler.py:93-110 *)

Years == {1999, 2024}   \* years of the dates formatted

\* days of month m of year y (a Timestamp is a calendar date)
DaysInMonth(y, m) ==
    IF m = 2 THEN (IF y % 4 = 0 /\ (y % 100 # 0 \/ y % 400 = 0) THEN 29 ELSE 28)
    ELSE IF m \in {4, 6, 9, 11} THEN 30 ELSE 31

Timestamps ==
    {t \in [kind : {"date"}, y : Years, m : 1..12, d : 1..31] : t.d <= DaysInMonth(t.y, t.m)}

\* language codes handed to format_date_long: the three known ones and others
LanguageCodes == Languages \cup {"nl", ""}

InitDateLong ==
    /\ pc = "format_date_long"
    /\ date \in Timestamps
    /\ target_lang \in LanguageCodes
    /\ loc = C_LOCALE
    /\ ret = None
    /\ NoNumCall /\ NoOrdCall /\ NoFmtCall /\ NoCtxCall
    /\ NoMapCall /\ NoDataCall /\ NoTemplateCall
    /\ NoLaterCall

FormatDateLong ==
    /\ pc = "format_date_long"
    /\ ret' = format_date_long(date, target_lang)
    /\ pc' = "returned"
    /\ UNCHANGED <<page, uploaded_template, file_uploader, uploaded_data,
                   generated_files, today, prefix, primary_column, secondary_column,
                   primary_value, secondary_value,
                   single_form_fields, uploaded_template_single,
                   date, word_fields, headers, df_data, total_row, rows_all_with_total,
                   index, rendered, doc, name, curly_fields,
                   x, n, raw_value, template_field, target_lang, loc, to_datetime,
                   row, field_mapping, square_fields, context>>

SpecDateLong == InitDateLong /\ [][FormatDateLong]_vars

DutchMonth(m) ==
    CASE m = 1 -> "januari" [] m = 2 -> "februari" [] m = 3 -> "maart"
      [] m = 4 -> "april" [] m = 5 -> "mei" [] m = 6 -> "juni" [] m = 7 -> "juli"
      [] m = 8 -> "augustus" [] m = 9 -> "september" [] m = 10 -> "oktober"
      [] m = 11 -> "november" [] m = 12 -> "december"

EnglishMonth(m) ==
    CASE m = 1 -> "January" [] m = 2 -> "February" [] m = 3 -> "March"
      [] m = 4 -> "April" [] m = 5 -> "May" [] m = 6 -> "June" [] m = 7 -> "July"
      [] m = 8 -> "August" [] m = 9 -> "September" [] m = 10 -> "October"
      [] m = 11 -> "November" [] m = 12 -> "December"

\* C11: format_date_long(date, lang) is "{day} {dutch month} {year}" for "NL",
\* "{english month} {ordinal day}, {year}" for "US" and "{day} {english month}
\* {year}" for "UK" and every other code; the day is never zero-padded;
\* 2024-03-05 gives "5 maart 2024", "March 5th, 2024" and "5 March 2024".
C11_LongDateForms ==
    pc = "returned" =>
        LET day == NatStr(date.d)
            year == NatStr(date.y)
        IN /\ Head(day) # "0"
           /\ ret = CASE target_lang = "NL" ->
                           day \o " " \o DutchMonth(date.m) \o " " \o year
                      [] target_lang = "US" ->
                           EnglishMonth(date.m) \o " " \o day \o EnglishSuffix(date.d)
                               \o ", " \o year
                      [] OTHER -> day \o " " \o EnglishMonth(date.m) \o " " \o year
           /\ (date = Date(2024, 3, 5) =>
                  ret = CASE target_lang = "NL" -> "5 maart 2024"
                          [] target_lang = "US" -> "March 5th, 2024"
                          [] OTHER -> "5 March 2024")

C11_Witness ==
    /\ pc = "returned"
    /\ date = Date(2024, 3, 5)
    /\ target_lang = "DE"
    /\ ret = "5 March 2024"

-----------------------------------------------------------------------------
(* create_field_mapping, src/data_handler.py:149-172.  The dataset is       *)
(* [columns |-> names in order, rows |-> records], a record being a function *)
(* from the column names to cells.                                           *)

\* {normalize(h): h for h in headers}: a later header wins
normalized_headers(hs) ==
    [nk \in {normalize(hs[i]) : i \in DOMAIN hs} |->
        hs[CHOOSE i \in DOMAIN hs :
              /\ normalize(hs[i]) = nk
              /\ \A j \in DOMAIN hs : normalize(hs[j]) = nk => j <= i]]

\* re.sub(r'^\s*row\.', '', field.strip()): the pattern has no IGNORECASE flag
field_stripped(field) ==
    LET f == strip(field)
    IN IF startswith(f, ROW_PREFIX) THEN SubSeq(f, Len(ROW_PREFIX) + 1, Len(f)) ELSE f

\* df_data.empty
empty(df) == Len(df.columns) = 0 \/ Len(df.rows) = 0

\* df_data[match].iloc[0] if (match and not df_data.empty) else ""
sample_value(df, match) ==
    IF match # "" /\ ~empty(df) THEN df.rows[1][match] ELSE Str("")

\* create_field_mapping that looks the field up without normalizing it
create_field_mapping_ExactName(fields, hs, df) ==
    [i \in DOMAIN fields |->
        LET lookup == normalized_headers(hs)
            key == field_stripped(fields[i])
            match == IF key \in DOMAIN lookup THEN lookup[key] ELSE ""
        IN <<fields[i], match, sample_value(df, match)>>]

create_field_mapping(fields, hs, df) ==
    [i \in DOMAIN fields |->
        LET lookup == normalized_headers(hs)
            norm_field == normalize(field_stripped(fields[i]))
            match == IF norm_field \in DOMAIN lookup THEN lookup[norm_field] ELSE ""
        IN <<fields[i], match, sample_value(df, match)>>]

MaxHeaders == 2      \* most columns of the dataset matched
MaxWordFields == 2   \* most template fields matched

HeaderNames == {"first_name", "FirstName", "Naam", "row.Naam", "Bedrag"}

FieldSpellings ==
    {"First Name", "first_name", "FirstName", " Naam", "Naam", "row.Naam", "Row.Naam",
     "ROW.Naam", "row.row.Naam", "Onbekend"}

\* the columns of a dataset have different names
HeaderLists ==
    {l \in UNION {[1..k -> HeaderNames] : k \in 0..MaxHeaders} :
        \A i, j \in DOMAIN l : i # j => l[i] # l[j]}

WordFieldLists == UNION {[1..k -> FieldSpellings] : k \in 1..MaxWordFields}

\* the preview dataset: no row, or one row whose cells name their column
PreviewData(hs) ==
    {[columns |-> hs, rows |-> r] :
        r \in {<<>>, <<[c \in Range(hs) |-> Str("voorbeeld " \o c)]>>}}

InitMapping ==
    /\ pc = "create_field_mapping"
    /\ headers \in HeaderLists
    /\ word_fields \in WordFieldLists
    /\ df_data \in PreviewData(headers)
    /\ NoBatchCall
    /\ ret = None
    /\ NoNumCall /\ NoOrdCall /\ NoFmtCall /\ NoCtxCall /\ NoLocale
    /\ NoDateCall /\ NoTemplateCall
    /\ NoLaterCall

CreateFieldMapping ==
    /\ pc = "create_field_mapping"
    /\ ret' = create_field_mapping(word_fields, headers, df_data)
    /\ pc' = "returned"
    /\ UNCHANGED <<page, uploaded_template, file_uploader, uploaded_data,
                   generated_files, today, prefix, primary_column, secondary_column,
                   primary_value, secondary_value,
                   single_form_fields, uploaded_template_single,
                   date, word_fields, headers, df_data, total_row, rows_all_with_total,
                   index, rendered, doc, name, curly_fields,
                   x, n, raw_value, template_field, target_lang, loc, to_datetime,
                   row, field_mapping, square_fields, context>>

SpecMapping == InitMapping /\ [][CreateFieldMapping]_vars

(* Properties of create_field_mapping *)

\* the column suggested for the i-th template field
Suggested(i) == ret[i][2]

\* the field starts with "row." in some letter case
HasRowPrefix(field) == startswith(lower(strip(field)), ROW_PREFIX)

\* the i-th field and every header of equal normalized form are matched
MatchedWhenEqual(i) ==
    \A h \in Range(headers) :
        normalize(word_fields[i]) = normalize(h) =>
            Suggested(i) \in Range(headers) /\ normalize(Suggested(i)) = normalize(h)

\* a header suggested for the i-th field has the normalized form of the field
EqualWhenMatched(i) ==
    Suggested(i) # "" => normalize(Suggested(i)) = normalize(word_fields[i])

SpellingsAgree ==
    /\ \A f \in Range(word_fields) \cup Range(headers) : normalize(normalize(f)) = normalize(f)
    /\ normalize("First Name") = normalize("first_name")
    /\ normalize("first_name") = normalize("FirstName")
    /\ \A i, j \in DOMAIN word_fields :
          {word_fields[i], word_fields[j]} \subseteq {"First Name", "first_name", "FirstName"}
              => Suggested(i) = Suggested(j)

\* C12 as stated: a template field and a header are matched whenever their
\* normalized forms are equal; "First Name", "first_name" and "FirstName" get
\* the same header and normalize is idempotent.
C12_PurelyNormalizedName ==
    pc = "returned" =>
        /\ \A i \in DOMAIN word_fields : MatchedWhenEqual(i)
        /\ SpellingsAgree

\* C12 amended: for every template field that does not start with "row." (in
\* any letter case) create_field_mapping matches purely on the normalized
\* name: the field and a header are matched whenever their normalized forms
\* are equal, and only then; "First Name", "first_name" and "FirstName" get
\* the same header and normalize is idempotent.
C12_NormalizedNameWithoutPrefix ==
    pc = "returned" =>
        /\ \A i \in DOMAIN word_fields :
              ~HasRowPrefix(word_fields[i]) => MatchedWhenEqual(i) /\ EqualWhenMatched(i)
        /\ SpellingsAgree

C12_Witness ==
    /\ pc = "returned"
    /\ headers = <<"Bedrag", "first_name">>
    /\ word_fields = <<"First Name", "FirstName">>
    /\ Suggested(1) = "first_name"
    /\ Suggested(2) = "first_name"

\* the field without its "row." prefix, the prefix taken in any letter case
BareField(field) ==
    IF HasRowPrefix(field)
    THEN SubSeq(strip(field), Len(ROW_PREFIX) + 1, Len(strip(field)))
    ELSE strip(field)

\* C13: for every header H (not itself starting with "row.") the template
\* fields "H", "row.H", "Row.H" and "ROW.H" all receive the same suggested
\* column, the one of H.
C13_RowPrefixAnyCase ==
    pc = "returned" =>
        \A i \in DOMAIN word_fields :
            (BareField(word_fields[i]) \in Range(headers)
                /\ ~HasRowPrefix(BareField(word_fields[i]))) =>
                Suggested(i) = normalized_headers(headers)[normalize(BareField(word_fields[i]))]

-----------------------------------------------------------------------------
(* calculate_totals, src/data_handler.py:215-256 *)

\* the natural number written by the digits d
RECURSIVE DigitsVal(_)
DigitsVal(d) ==
    IF d = "" THEN 0 ELSE 10 * DigitsVal(SubSeq(d, 1, Len(d) - 1)) + DigitVal(Ch(d, Len(d)))

\* a finite number of at most two decimals, in hundredths
Hundredths(v) ==
    LET h == 100 * DigitsVal(v.ip) + DigitsVal(SubSeq(v.fp \o "00", 1, 2))
    IN IF v.neg THEN 0 - h ELSE h

FloatOfHundredths(h) ==
    LET a == IF h < 0 THEN 0 - h ELSE h
    IN PyFloat(h < 0, NatStr(a \div 100), ZeroPad(NatStr(a % 100), 2))

\* total + float(n); the cells are multiples of 1/4, so the binary sum is exact;
\* nan is absorbing
AddFloat(total, num) ==
    IF total.sp = "nan" \/ num.sp = "nan" THEN NaN
    ELSE FloatOfHundredths(Hundredths(total) + Hundredths(num))

\* [r.get(col) for r in rows_all]
ColumnCells(df, col) == [i \in DOMAIN df.rows |-> df.rows[i][col]]

\* lines 239-241: one cell added to the running total
add_cell(before, num) ==
    IF num # None
    THEN [total |-> AddFloat(before.total, num), any_numeric |-> TRUE]
    ELSE before

\* lines 235-241 over the first k cells: the running total and any_numeric
RECURSIVE SumCells(_, _)
SumCells(cells, k) ==
    IF k = 0 THEN [total |-> PyFloat(FALSE, "0", ""), any_numeric |-> FALSE]
    ELSE add_cell(SumCells(cells, k - 1), to_number(cells[k]))

\* lines 230-250: the entry of a column from its name and the loop's result
total_form(col_norm, sum) ==
    IF col_norm \in {"year", "jaar"} THEN ""
    ELSE IF ~sum.any_numeric THEN ""
    ELSE IF IsAmountLike(col_norm) THEN EURO \o locale_format_2f(sum.total)
    ELSE IF IsNumberLike(col_norm)
         THEN IF is_integer(sum.total)
              THEN str(PyInt(sum.total.neg, sum.total.ip)) ELSE str(sum.total)
    ELSE ""

\* lines 229-250: the entry of one column
total_entry(col, cells) == total_form(lower(strip(col)), SumCells(cells, Len(cells)))

TOTAAL == "Totaal"

\* calculate_totals without the label of lines 253-254
calculate_totals_NoLabel(df) ==
    [col \in Range(df.columns) |-> total_entry(col, ColumnCells(df, col))]

calculate_totals(df) ==
    [col \in Range(df.columns) |->
        IF col = df.columns[1] THEN TOTAAL ELSE total_entry(col, ColumnCells(df, col))]

MaxColumns == 2   \* most columns of the dataset totalled
MaxRows == 2      \* most rows of the dataset totalled

ColumnNames == {"Naam", " Jaar", "Bedrag", "Aantal", "Amount #", "Opmerking"}

\* cells of a dataset read with dtype=str: texts, and NaN for an empty cell
TotalsCells == {Str("5"), Str("2,5"), Str("abc"), NaN}

ColumnLists ==
    {l \in UNION {[1..k -> ColumnNames] : k \in 0..MaxColumns} :
        \A i, j \in DOMAIN l : i # j => l[i] # l[j]}

DataFrames ==
    UNION {{[columns |-> cols, rows |-> rs] :
               rs \in UNION {[1..k -> [Range(cols) -> TotalsCells]] : k \in 0..MaxRows}} :
           cols \in ColumnLists}

InitTotals ==
    /\ pc = "calculate_totals"
    /\ df_data \in DataFrames
    /\ loc \in Locales
    /\ target_lang = "UK"
    /\ NoBatchCall
    /\ ret = None
    /\ NoNumCall /\ NoOrdCall /\ NoFmtCall /\ NoCtxCall
    /\ NoDateCall /\ NoMapCall /\ NoTemplateCall
    /\ NoLaterCall

CalculateTotals ==
    /\ pc = "calculate_totals"
    /\ ret' = calculate_totals(df_data)
    /\ pc' = "returned"
    /\ UNCHANGED <<page, uploaded_template, file_uploader, uploaded_data,
                   generated_files, today, prefix, primary_column, secondary_column,
                   primary_value, secondary_value,
                   single_form_fields, uploaded_template_single,
                   date, word_fields, headers, df_data, total_row, rows_all_with_total,
                   index, rendered, doc, name, curly_fields,
                   x, n, raw_value, template_field, target_lang, loc, to_datetime,
                   row, field_mapping, square_fields, context>>

SpecTotals == InitTotals /\ [][CalculateTotals]_vars

(* Properties of calculate_totals *)

\* a cell that holds a number: present and read by to_number as a finite number
IsNumericCell(v) == notna(v) /\ to_number(v) # None /\ to_number(v).sp = ""

NumericCells(cells) == SelectSeq(cells, IsNumericCell)

NonFirstColumns == {df_data.columns[i] : i \in DOMAIN df_data.columns \ {1}}

\* C14: for every column but the first (which holds the label), the total is
\* "" when no row holds a numeric value, and text and missing cells never
\* change the total: it is the total of the column's numeric cells alone.
C14_SkipsNonNumeric ==
    pc = "returned" =>
        \A col \in NonFirstColumns :
            LET cells == ColumnCells(df_data, col)
            IN /\ (NumericCells(cells) = <<>> => ret[col] = "")
               /\ ret[col] = total_entry(col, NumericCells(cells))

\* C15: for every dataset with at least one column the totals row has exactly
\* one entry per column and the entry of the first column is "Totaal",
\* whatever its name or data.
C15_FirstColumnLabel ==
    (pc = "returned" /\ Len(df_data.columns) >= 1) =>
        /\ DOMAIN ret = Range(df_data.columns)
        /\ ret[df_data.columns[1]] = "Totaal"

C15_Witness ==
    /\ pc = "returned"
    /\ df_data.columns = <<"Bedrag", " Jaar">>
    /\ df_data.rows = <<[c \in {"Bedrag", " Jaar"} |-> Str("5")]>>
    /\ ret = [c \in {"Bedrag", " Jaar"} |-> IF c = "Bedrag" THEN "Totaal" ELSE ""]

\* the mathematical sum of the numeric cells, in hundredths
RECURSIVE SumHundredths(_)
SumHundredths(cells) ==
    IF cells = <<>> THEN 0
    ELSE Hundredths(to_number(Head(cells))) + SumHundredths(Tail(cells))

\* C16: for every non-first column with at least one numeric cell the total is
\* chosen by the column name in this order: "year"/"jaar" (trimmed,
\* lower-cased) gives ""; else a name containing "amount" or "bedrag" gives the
\* euro sign and the sum with two decimals, grouped; else a name containing
\* "number", "#" or "count" or starting with "aantal" gives the sum as an
\* integer when it is whole; every other column gives "".
C16_FormByColumnName ==
    pc = "returned" =>
        \A col \in NonFirstColumns :
            LET cells == NumericCells(ColumnCells(df_data, col))
                sum == FloatOfHundredths(SumHundredths(cells))
                nm == lower(strip(col))
            IN cells # <<>> =>
                 IF nm \in {"year", "jaar"} THEN ret[col] = ""
                 ELSE IF contains(nm, "amount") \/ contains(nm, "bedrag")
                      THEN ret[col] = EURO \o locale_format_2f(sum)
                 ELSE IF contains(nm, "number") \/ contains(nm, "#") \/ contains(nm, "count")
                            \/ startswith(nm, "aantal")
                      THEN (sum.fp = "" => ret[col] = IntStr(SumHundredths(cells) \div 100))
                 ELSE ret[col] = ""

-----------------------------------------------------------------------------
(* create_safe_filename, src/document_generator.py:97-114 *)

\* the characters of the class [\\/*?:"<>|] of line 110
UNSAFE_CHARS == {"\\", "/", "*", "?", ":", "\"", "<", ">", "|"}

\* line 111: the longest value part
MAX_VALUE_LEN == 80

\* bool(v) of the values a cell can hold
truthy(v) ==
    CASE v.kind = "str" -> v.s # ""
      [] v.kind = "int" -> v.ip # "0"
      [] v.kind = "float" -> v.sp # "" \/ v.ip # "0" \/ v.fp \notin {"", "0"}
      [] v.kind = "date" -> TRUE
      [] OTHER -> FALSE

\* re.sub(r'[\\/*?:"<>|]', '_', s)
RECURSIVE sub_unsafe(_)
sub_unsafe(s) ==
    IF s = "" THEN ""
    ELSE (IF Head(s) \in UNSAFE_CHARS THEN "_" ELSE Head(s)) \o sub_unsafe(Tail(s))

MaxDay == 2   \* last day of the month on which a pass runs

\* str(pd.Timestamp.now().date()) on day d of the month the pass runs in
isoformat(d) == "2024-01-" \o ZeroPad(NatStr(d), 2)

\* lines 109-114
create_safe_filename(pre, primary, secondary, d) ==
    LET value == IF truthy(primary) /\ ~isna(primary) THEN primary ELSE secondary
        safe_value0 == strip(sub_unsafe(str(value)))
        safe_value == IF Len(safe_value0) > MAX_VALUE_LEN
                      THEN SubSeq(safe_value0, 1, MAX_VALUE_LEN) ELSE safe_value0
    IN pre \o " " \o safe_value \o " " \o isoformat(d) \o ".docx"

\* row.get(column, "")
row_get(r, column) == IF column \in Range(r.index) THEN r.value[column] ELSE Str("")

\* line 255: the name under output_dir that the document is saved as
filepath(filename) == replace(filename, "_", " ")

-----------------------------------------------------------------------------
(* generate_documents_batch, src/document_generator.py:190-262.  What the    *)
(* renderer receives is recorded in rendered, the names the documents are    *)
(* saved under in generated_files.                                           *)

\* create_context_from_row, src/data_handler.py:259-303, as one call
create_context_from_row(r, mapping, fields, lang) ==
    Put(SquareContext(AliasedContext(MappedContext(r, mapping, lang)), fields, NormRow(r), lang),
        "rows_one", reshape_wide_to_rows(NormRow(r), NormKeys(r)))

\* the Series that iterrows() yields for the i-th record
iterrows(df, i) == [index |-> df.columns, value |-> df.rows[i]]

\* lines 239-241 with the totals row also written into the context itself
render_context_TotalsInjected(ctx, rows) ==
    LET total == rows[Len(rows)]
    IN [k \in DOMAIN ctx \cup DOMAIN total \cup {"rows_all", "rows"} |->
           IF k \in {"rows_all", "rows"} THEN rows
           ELSE IF k \in DOMAIN total THEN total[k] ELSE ctx[k]]

\* lines 239-241: context["rows_all"] and context["rows"]
render_context(ctx, rows) == Put(Put(ctx, "rows_all", rows), "rows", rows)

BatchCells == [Naam |-> {Str("Jan"), NaN}, Bedrag |-> {Str("5"), Str("2,5")}]

BatchFrames ==
    {[columns |-> DataColumns, rows |-> rs] :
        rs \in UNION {[1..k -> {w \in [Range(DataColumns) -> UNION Range(BatchCells)] :
                                   \A c \in Range(DataColumns) : w[c] \in BatchCells[c]}] :
                      k \in 0..MaxRows}}

BatchMappings == UNION {[F -> {"", "Bedrag"}] : F \in SUBSET {"Naam", "Bedrag"}}

BatchSquareLists == {<<>>, <<[Veldnaam |-> "Bedrag", Opnemen |-> "True"]>>}

BatchTexts == {"Jan", "5", "2,5", ""}

InitBatch ==
    /\ pc = "generate_documents_batch"
    /\ df_data \in BatchFrames
    /\ field_mapping \in BatchMappings
    /\ square_fields \in BatchSquareLists
    /\ target_lang = "NL"
    /\ loc \in Locales
    /\ to_datetime = [t \in BatchTexts |-> [b \in BOOLEAN |-> NaT]]
    /\ NoBatchCall
    /\ row = <<>> /\ context = <<>>
    /\ raw_value = None /\ template_field = ""
    /\ ret = None
    /\ NoNumCall /\ NoOrdCall
    /\ NoDateCall /\ NoMapCall /\ NoTemplateCall
    /\ NoWizardRun
    /\ generated_files = <<>>
    /\ today = 1
    /\ prefix = "Document"
    /\ primary_column = "Naam"
    /\ secondary_column = "Bedrag"
    /\ primary_value = None /\ secondary_value = None

\* lines 225-231
Totals ==
    /\ pc = "generate_documents_batch"
    /\ total_row' = calculate_totals(df_data)
    /\ rows_all_with_total' = df_data.rows \o <<total_row'>>
    /\ index' = 0
    /\ pc' = "rows"
    /\ UNCHANGED <<page, uploaded_template, file_uploader, uploaded_data,
                   generated_files, today, prefix, primary_column, secondary_column,
                   primary_value, secondary_value,
                   single_form_fields, uploaded_template_single,
                   date, word_fields, headers, df_data, rendered, doc, name, curly_fields,
                   x, n, raw_value, template_field, target_lang, loc, to_datetime,
                   row, field_mapping, square_fields, context, ret>>

\* lines 233-237: the next row of iterrows() enters create_context_from_row,
\* whose passes are MappingPass, AliasPass, SquarePass and RowsOne
NextRow ==
    /\ pc = "rows"
    /\ index < Len(df_data.rows)
    /\ row' = iterrows(df_data, index + 1)
    /\ context' = <<>>
    /\ pc' = "create_context_from_row"
    /\ UNCHANGED <<page, uploaded_template, file_uploader, uploaded_data,
                   generated_files, today, prefix, primary_column, secondary_column,
                   primary_value, secondary_value,
                   single_form_fields, uploaded_template_single,
                   date, word_fields, headers, df_data, total_row, rows_all_with_total,
                   index, rendered, doc, name, curly_fields,
                   x, n, raw_value, template_field, target_lang, loc, to_datetime,
                   field_mapping, square_fields, ret>>

\* lines 239-260 once create_context_from_row has returned: the document is
\* rendered from the context and saved under the name made at that moment (the
\* clock may have passed midnight since the previous row)
RenderRow ==
    /\ pc = "returned"
    /\ context' = render_context(ret, rows_all_with_total)
    /\ rendered' = Append(rendered, context')
    /\ \E now \in {today, IF today < MaxDay THEN today + 1 ELSE today} :
          /\ today' = now
          /\ generated_files' =
                 Append(generated_files,
                        filepath(create_safe_filename(prefix, row_get(row, primary_column),
                                                      row_get(row, secondary_column), now)))
    /\ index' = index + 1
    /\ pc' = "rows"
    /\ UNCHANGED <<page, uploaded_template, file_uploader, uploaded_data,
                   prefix, primary_column, secondary_column,
                   primary_value, secondary_value,
                   single_form_fields, uploaded_template_single,
                   date, word_fields, headers, df_data, total_row, rows_all_with_total,
                   doc, name, curly_fields,
                   x, n, raw_value, template_field, target_lang, loc, to_datetime,
                   row, field_mapping, square_fields, ret>>

\* lines 234-258: DocxTemplate, render or save raises and the pass ends
RenderRaises ==
    /\ pc = "returned"
    /\ pc' = "raised"
    /\ UNCHANGED <<page, uploaded_template, file_uploader, uploaded_data,
                   generated_files, today, prefix, primary_column, secondary_column,
                   primary_value, secondary_value,
                   single_form_fields, uploaded_template_single,
                   date, word_fields, headers, df_data, total_row, rows_all_with_total,
                   index, rendered, doc, name, curly_fields,
                   x, n, raw_value, template_field, target_lang, loc, to_datetime,
                   row, field_mapping, square_fields, context, ret>>

\* line 262
ReturnBatch ==
    /\ pc = "rows"
    /\ index = Len(df_data.rows)
    /\ ret' = index
    /\ pc' = "finished"
    /\ UNCHANGED <<page, uploaded_template, file_uploader, uploaded_data,
                   generated_files, today, prefix, primary_column, secondary_column,
                   primary_value, secondary_value,
                   single_form_fields, uploaded_template_single,
                   date, word_fields, headers, df_data, total_row, rows_all_with_total,
                   index, rendered, doc, name, curly_fields,
                   x, n, raw_value, template_field, target_lang, loc, to_datetime,
                   row, field_mapping, square_fields, context>>

NextBatch ==
    \/ Totals \/ NextRow
    \/ MappingPass \/ AliasPass \/ SquarePass \/ RowsOne
    \/ RenderRow \/ RenderRaises \/ ReturnBatch

SpecBatch == InitBatch /\ [][NextBatch]_vars

(* Properties of generate_documents_batch *)

\* ctx without the keys in ks
Without(ctx, ks) == [k \in DOMAIN ctx \ ks |-> ctx[k]]

\* C17: every context handed to the renderer has rows_all equal to the
\* dataset's rows in their order followed by exactly one totals row, and rows
\* equal to rows_all; the totals row is the same for every row of the pass
\* (the totals of the whole dataset); and apart from rows_all and rows the
\* context is the one create_context_from_row built from the row alone, so no
\* entry of the totals row is written into it.
C17_TotalsOnlyInRowsAll ==
    \A k \in DOMAIN rendered :
        LET ctx == rendered[k]
            all == ctx["rows_all"]
        IN /\ Len(all) = Len(df_data.rows) + 1
           /\ SubSeq(all, 1, Len(df_data.rows)) = df_data.rows
           /\ all[Len(all)] = total_row
           /\ all[Len(all)] = rendered[1]["rows_all"][Len(all)]
           /\ total_row = calculate_totals(df_data)
           /\ ctx["rows"] = all
           /\ Without(ctx, {"rows_all", "rows"}) =
                Without(create_context_from_row(iterrows(df_data, k), field_mapping,
                                                square_fields, target_lang),
                        {"rows_all", "rows"})

C17_Witness ==
    /\ pc = "finished"
    /\ Len(df_data.rows) = 2
    /\ df_data.rows[1] # df_data.rows[2]
    /\ Len(rendered) = 2
    /\ field_mapping = [f \in {"Bedrag"} |-> "Bedrag"]
    /\ rendered[2]["Bedrag"] # total_row["Bedrag"]
    /\ rendered[2]["rows_all"] = df_data.rows \o <<total_row>>

-----------------------------------------------------------------------------
(* extract_placeholders, src/template_processor.py:12-64.  A paragraph is    *)
(* the list of the pieces its text is made of; a table is given by the       *)
(* paragraphs of its cells in row and cell order; the scan reads the text.   *)

OPEN_CURLY == "{{"

CLOSE_CURLY == "}}"

\* para.text
RECURSIVE ParaText(_)
ParaText(para) ==
    IF para = <<>> THEN ""
    ELSE (CASE Head(para).kind = "curly" -> OPEN_CURLY \o Head(para).s \o CLOSE_CURLY
            [] Head(para).kind = "square" -> "[" \o Head(para).s \o "]"
            [] OTHER -> Head(para).s) \o ParaText(Tail(para))

\* s holds sub at position i
At(s, sub, i) == i + Len(sub) - 1 <= Len(s) /\ SubSeq(s, i, i + Len(sub) - 1) = sub

\* the first position from j on where close starts, 0 when there is none
RECURSIVE FindClose(_, _, _)
FindClose(s, close, j) ==
    IF j > Len(s) THEN 0
    ELSE IF At(s, close, j) THEN j
    ELSE FindClose(s, close, j + 1)

\* the match that starts at i, closing at position j (none when j = 0)
match_from(s, open, close, i, j) == SubSeq(s, i + Len(open), j - 1)

\* re.findall(open(.*?)close, s) from position i on: leftmost matches, each as
\* short as possible, the scan resuming behind the match
RECURSIVE findall(_, _, _, _)
findall(s, open, close, i) ==
    IF i > Len(s) THEN <<>>
    ELSE IF At(s, open, i) /\ FindClose(s, close, i + Len(open)) # 0
         THEN <<match_from(s, open, close, i, FindClose(s, close, i + Len(open)))>> \o
              findall(s, open, close, FindClose(s, close, i + Len(open)) + Len(close))
         ELSE findall(s, open, close, i + 1)

\* the paragraphs in the order of lines 27-50
hf_paragraphs(hf) == hf.paragraphs \o hf.tables

RECURSIVE section_paragraphs(_)
section_paragraphs(sections) ==
    IF sections = <<>> THEN <<>>
    ELSE hf_paragraphs(Head(sections).header) \o hf_paragraphs(Head(sections).footer) \o
         section_paragraphs(Tail(sections))

scan(d) == d.paragraphs \o d.tables \o section_paragraphs(d.sections)

\* curly_fields before deduplication
RECURSIVE curly_found(_)
curly_found(paras) ==
    IF paras = <<>> THEN <<>>
    ELSE LET found == findall(ParaText(Head(paras)), OPEN_CURLY, CLOSE_CURLY, 1)
         IN [i \in DOMAIN found |-> strip(found[i])] \o curly_found(Tail(paras))

\* curly_fields without the strip() of lines 28, 36, 43 and 49
RECURSIVE curly_found_NoStrip(_)
curly_found_NoStrip(paras) ==
    IF paras = <<>> THEN <<>>
    ELSE findall(ParaText(Head(paras)), OPEN_CURLY, CLOSE_CURLY, 1) \o
         curly_found_NoStrip(Tail(paras))

\* square_fields before deduplication
RECURSIVE square_found(_)
square_found(paras) ==
    IF paras = <<>> THEN <<>>
    ELSE findall(ParaText(Head(paras)), "[", "]", 1) \o square_found(Tail(paras))

\* _dedup: the first occurrences, in order
RECURSIVE dedup(_)
dedup(seq) ==
    IF seq = <<>> THEN <<>>
    ELSE IF \E i \in 1..(Len(seq) - 1) : seq[i] = seq[Len(seq)]
         THEN dedup(SubSeq(seq, 1, Len(seq) - 1))
         ELSE Append(dedup(SubSeq(seq, 1, Len(seq) - 1)), seq[Len(seq)])

\* extract_placeholders that does not trim the curly contents
extract_placeholders_NoStrip(d) ==
    <<dedup(curly_found_NoStrip(scan(d))), dedup(square_found(scan(d)))>>

extract_placeholders(d) == <<dedup(curly_found(scan(d))), dedup(square_found(scan(d)))>>

MaxPieces == 2   \* most pieces of the body paragraph

Pieces ==
    {[kind |-> "text", s |-> "Beste "],
     [kind |-> "curly", s |-> "Naam"], [kind |-> "curly", s |-> " Naam "],
     [kind |-> "curly", s |-> "Plaats"], [kind |-> "square", s |-> "Opt"]}

BodyParagraphs == UNION {[1..k -> Pieces] : k \in 0..MaxPieces}

\* a region with no paragraph or with one paragraph of one piece
OneParagraph(P) == {<<>>} \cup {<<<<piece>>>> : piece \in P}

Documents ==
    {[paragraphs |-> <<para>>, tables |-> t,
      sections |-> <<[header |-> [paragraphs |-> hp, tables |-> ht],
                      footer |-> [paragraphs |-> fp, tables |-> ft]]>>] :
        para \in BodyParagraphs, t \in OneParagraph(Pieces), hp \in OneParagraph(Pieces),
        ht \in OneParagraph({[kind |-> "square", s |-> " Opt "]}),
        fp \in OneParagraph({[kind |-> "curly", s |-> "Naam "]}),
        ft \in OneParagraph(Pieces)}

InitExtract ==
    /\ pc = "extract_placeholders"
    /\ doc \in Documents
    /\ name = "" /\ curly_fields = <<>>
    /\ ret = None
    /\ NoNumCall /\ NoOrdCall /\ NoFmtCall /\ NoCtxCall /\ NoLocale
    /\ NoDateCall /\ NoMapCall /\ NoDataCall
    /\ NoLaterCall

ExtractPlaceholders ==
    /\ pc = "extract_placeholders"
    /\ ret' = extract_placeholders(doc)
    /\ pc' = "returned"
    /\ UNCHANGED <<page, uploaded_template, file_uploader, uploaded_data,
                   generated_files, today, prefix, primary_column, secondary_column,
                   primary_value, secondary_value,
                   single_form_fields, uploaded_template_single,
                   date, word_fields, headers, df_data, total_row, rows_all_with_total,
                   index, rendered, doc, name, curly_fields,
                   x, n, raw_value, template_field, target_lang, loc, to_datetime,
                   row, field_mapping, square_fields, context>>

SpecExtract == InitExtract /\ [][ExtractPlaceholders]_vars

(* Properties of extract_placeholders *)

\* the contents of the tokens of one kind, in the order of the scan
RECURSIVE TokensOf(_, _)
TokensOf(pieces, kind) ==
    IF pieces = <<>> THEN <<>>
    ELSE (IF Head(pieces).kind = kind THEN <<Head(pieces).s>> ELSE <<>>) \o
         TokensOf(Tail(pieces), kind)

RECURSIVE Flatten(_)
Flatten(paras) == IF paras = <<>> THEN <<>> ELSE Head(paras) \o Flatten(Tail(paras))

\* body paragraphs, body tables, then header and footer of each section
ScanOrder ==
    Flatten(doc.paragraphs) \o Flatten(doc.tables) \o
    Flatten(doc.sections[1].header.paragraphs) \o Flatten(doc.sections[1].header.tables) \o
    Flatten(doc.sections[1].footer.paragraphs) \o Flatten(doc.sections[1].footer.tables)

NoDuplicates(seq) == \A i, j \in DOMAIN seq : i # j => seq[i] # seq[j]

\* seq lists the elements of src once each, in the order of their first
\* occurrence in src
FirstOccurrences(seq, src) ==
    /\ NoDuplicates(seq)
    /\ Range(seq) = Range(src)
    /\ \A i, j \in DOMAIN seq :
          i < j => (CHOOSE a \in DOMAIN src : src[a] = seq[i] /\ \A b \in 1..(a - 1) : src[b] # seq[i])
                   < (CHOOSE a \in DOMAIN src : src[a] = seq[j] /\ \A b \in 1..(a - 1) : src[b] # seq[j])

\* C18: extract_placeholders returns two lists without duplicates in the
\* first-occurrence order of the scan (body paragraphs, body tables, each
\* section's header and footer paragraphs and tables): the curly list holds
\* the content of every "{{...}}" token trimmed of surrounding whitespace
\* (duplicates being those of the trimmed text), the square list the content
\* of every "[...]" token unchanged; adjacent placeholders of one paragraph
\* are separate entries.
C18_PlaceholderLists ==
    pc = "returned" =>
        LET curly == TokensOf(ScanOrder, "curly")
            square == TokensOf(ScanOrder, "square")
        IN /\ FirstOccurrences(ret[1], [i \in DOMAIN curly |-> strip(curly[i])])
           /\ FirstOccurrences(ret[2], square)

C18_Witness ==
    /\ pc = "returned"
    /\ doc.paragraphs = <<<<[kind |-> "curly", s |-> " Naam "], [kind |-> "curly", s |-> "Plaats"]>>>>
    /\ doc.tables = <<<<[kind |-> "curly", s |-> "Naam"]>>>>
    /\ doc.sections[1].header.tables = <<<<[kind |-> "square", s |-> " Opt "]>>>>
    /\ doc.sections[1].footer.tables = <<<<[kind |-> "square", s |-> "Opt"]>>>>
    /\ ret = <<<<"Naam", "Plaats">>, <<" Opt ", "Opt">>>>

-----------------------------------------------------------------------------
(* is_valid_jinja_var and validate_template_placeholders,                   *)
(* src/template_processor.py:72-128 and 172-196                              *)

IsLetter(c) ==
    \E i \in 1..26 : Ch(UPPERCASE, i) = c \/ Ch(LOWERCASE, i) = c

\* [A-Za-z_] and [A-Za-z0-9_]
IsIdentStart(c) == IsLetter(c) \/ c = "_"

IsIdentChar(c) == IsLetter(c) \/ IsDigit(c) \/ c = "_"

\* re.match(r'^[A-Za-z_][A-Za-z0-9_]*(\.[A-Za-z_][A-Za-z0-9_]*)*$', s) from
\* position i on, at_start telling that a segment begins at i
RECURSIVE match_dotted(_, _, _)
match_dotted(s, i, at_start) ==
    IF i > Len(s) THEN ~at_start
    ELSE IF at_start THEN IsIdentStart(Ch(s, i)) /\ match_dotted(s, i + 1, FALSE)
    ELSE IF Ch(s, i) = "." THEN match_dotted(s, i + 1, TRUE)
    ELSE IsIdentChar(Ch(s, i)) /\ match_dotted(s, i + 1, FALSE)

jinja_indicators ==
    <<"|", "~", "if ", "else", "default(", "trim", "join(", "reject(", "equalto">>

endswith(s, suf) == Len(s) >= Len(suf) /\ SubSeq(s, Len(s) - Len(suf) + 1, Len(s)) = suf

\* [A-Za-z0-9_\s\.\[\]\(\)\'\"~|,:-]
IsExpressionChar(c) ==
    IsIdentChar(c) \/ IsSpace(c) \/ c \in {".", "[", "]", "(", ")", "'", "\"", "~", "|", ",", ":", "-"}

\* lines 86-128, nm being name.strip()
valid_stripped(nm) ==
    IF match_dotted(nm, 1, TRUE) THEN TRUE
    ELSE IF \E k \in DOMAIN jinja_indicators : contains(nm, jinja_indicators[k])
         THEN IF count(nm, "(") - count(nm, ")") # 0 THEN FALSE
              ELSE IF count(nm, "'") % 2 # 0 \/ count(nm, "\"") % 2 # 0 THEN FALSE
              ELSE TRUE
    ELSE IF startswith(nm, "[") /\ endswith(nm, "]") THEN TRUE
    ELSE IF contains(nm, "~") /\ \A i \in 1..Len(nm) : IsExpressionChar(Ch(nm, i)) THEN TRUE
    ELSE FALSE

is_valid_jinja_var(nm0) == valid_stripped(strip(nm0))

\* \b at the gap before position i of s (between s[i-1] and s[i])
word_boundary(s, i) ==
    (i > 1 /\ IsIdentChar(Ch(s, i - 1))) # (i <= Len(s) /\ IsIdentChar(Ch(s, i)))

control_words == <<"for", "if", "else", "endif", "endfor">>

\* re.search(r"\b(for|if|else|endif|endfor)\b", field)
has_control_word(field) ==
    \E k \in DOMAIN control_words : \E i \in 1..Len(field) :
        /\ At(field, control_words[k], i)
        /\ word_boundary(field, i)
        /\ word_boundary(field, i + Len(control_words[k]))

\* line 193
looks_unclosed(field) ==
    startswith(lower(strip(field)), "note:") \/ endswith(strip(field), "if")

is_invalid(field) == ~is_valid_jinja_var(field)

validate_template_placeholders(fields) ==
    [invalid |-> SelectSeq(fields, is_invalid),
     control_in_print |-> SelectSeq(fields, has_control_word),
     unclosed |-> SelectSeq(fields, looks_unclosed)]

MaxNameLen == 4     \* longest generated field text
MaxCurlyFields == 2 \* most fields validated in one call

NameAlphabet == {"a", "_", ".", " ", "|", "(", ")", "'", "[", "]"}

NamedFields ==
    {"Voornaam", "row.Bedrag", "Voornaam Klant", "Motif Klant", "Totaal trimester", "naam | upper",
     "a ~ b", "x if y else z", "naam | default('x'", "naam | default(\"x\")",
     "a) | (b", "[a, b]", " Naam ", "2e", "a..b", "trim"}

JinjaNames == StringsUpTo(NameAlphabet, MaxNameLen) \cup NamedFields

InitJinja ==
    /\ pc = "is_valid_jinja_var"
    /\ name \in JinjaNames
    /\ doc = <<>> /\ curly_fields = <<>>
    /\ ret = None
    /\ NoNumCall /\ NoOrdCall /\ NoFmtCall /\ NoCtxCall /\ NoLocale
    /\ NoDateCall /\ NoMapCall /\ NoDataCall
    /\ NoLaterCall

IsValidJinjaVar ==
    /\ pc = "is_valid_jinja_var"
    /\ ret' = is_valid_jinja_var(name)
    /\ pc' = "returned"
    /\ UNCHANGED <<page, uploaded_template, file_uploader, uploaded_data,
                   generated_files, today, prefix, primary_column, secondary_column,
                   primary_value, secondary_value,
                   single_form_fields, uploaded_template_single,
                   date, word_fields, headers, df_data, total_row, rows_all_with_total,
                   index, rendered, doc, name, curly_fields,
                   x, n, raw_value, template_field, target_lang, loc, to_datetime,
                   row, field_mapping, square_fields, context>>

SpecJinja == InitJinja /\ [][IsValidJinjaVar]_vars

(* C19 *)

\* sub stands in s as a word of its own
IsWholeWord(s, sub) ==
    \E i \in 1..Len(s) :
        At(s, sub, i) /\ word_boundary(s, i) /\ word_boundary(s, i + Len(sub))

OperatorWords == {"if", "else", "default", "trim", "join", "reject", "equalto"}

\* a filter pipe, a concatenation operator, a conditional keyword or one of
\* the listed function names
HasOperator(s) ==
    contains(s, "|") \/ contains(s, "~") \/ \E w \in OperatorWords : IsWholeWord(s, w)

\* every ")" closes an earlier "(" and none stays open
RECURSIVE nested(_, _, _)
nested(s, i, depth) ==
    IF i > Len(s) THEN depth = 0
    ELSE IF Ch(s, i) = "(" THEN nested(s, i + 1, depth + 1)
    ELSE IF Ch(s, i) = ")" THEN depth > 0 /\ nested(s, i + 1, depth - 1)
    ELSE nested(s, i + 1, depth)

Balanced(s) == nested(s, 1, 0) /\ count(s, "'") % 2 = 0 /\ count(s, "\"") % 2 = 0

IsSimple(s) == match_dotted(s, 1, TRUE)

IsBracketed(s) == startswith(s, "[") /\ endswith(s, "]")

\* letters, digits and underscores in two or more groups separated by spaces
PlainWords(s) ==
    /\ contains(s, " ")
    /\ \A i \in 1..Len(s) : IsIdentChar(Ch(s, i)) \/ Ch(s, i) = " "

\* C19: a simple dotted identifier is valid; a field that is valid without
\* being a simple identifier or a bracketed list holds an operator and has
\* balanced parentheses and quotes; plain words separated by spaces, none of
\* them an operator word, are invalid.
C19_ValidatorClasses ==
    pc = "returned" =>
        /\ IsSimple(strip(name)) => ret
        /\ (ret /\ ~IsSimple(strip(name)) /\ ~IsBracketed(strip(name))) =>
               (HasOperator(strip(name)) /\ Balanced(strip(name)))
        /\ (PlainWords(strip(name)) /\ ~HasOperator(strip(name))) => ~ret


ValidatedFields ==
    {"Naam", "tarief", "motif", "x if", "if", " x if ", "note: todo", "Note: x", "for",
     "endif", "a if b else c", "Voornaam Klant", "elsewhere", "x.if", " klant.naam "}

InitValidate ==
    /\ pc = "validate_template_placeholders"
    /\ curly_fields \in UNION {[1..k -> ValidatedFields] : k \in 1..MaxCurlyFields}
    /\ doc = <<>> /\ name = ""
    /\ ret = None
    /\ NoNumCall /\ NoOrdCall /\ NoFmtCall /\ NoCtxCall /\ NoLocale
    /\ NoDateCall /\ NoMapCall /\ NoDataCall
    /\ NoLaterCall

ValidateTemplatePlaceholders ==
    /\ pc = "validate_template_placeholders"
    /\ ret' = validate_template_placeholders(curly_fields)
    /\ pc' = "returned"
    /\ UNCHANGED <<page, uploaded_template, file_uploader, uploaded_data,
                   generated_files, today, prefix, primary_column, secondary_column,
                   primary_value, secondary_value,
                   single_form_fields, uploaded_template_single,
                   date, word_fields, headers, df_data, total_row, rows_all_with_total,
                   index, rendered, doc, name, curly_fields,
                   x, n, raw_value, template_field, target_lang, loc, to_datetime,
                   row, field_mapping, square_fields, context>>

SpecValidate == InitValidate /\ [][ValidateTemplatePlaceholders]_vars

(* C20 *)

ContainsControlWord(field) == \E k \in DOMAIN control_words : IsWholeWord(field, control_words[k])

\* the text ends with "if" standing as a word of its own
EndsWithBareIf(s) == endswith(s, "if") /\ word_boundary(s, Len(s) - 1)

StartsWithNote(s) == startswith(lower(s), "note:")

StrayAnnotation(field) == StartsWithNote(strip(field)) \/ EndsWithBareIf(strip(field))

\* C20: control_in_print holds exactly the fields with one of the whole words
\* for, if, else, endif, endfor, and unclosed exactly the fields that start
\* with "note:" or end with the bare word "if", each list in the order of the
\* fields and whatever the other lists hold; an identifier that only ends in
\* the letters "if" is not in unclosed.
C20_DiagnosticLists ==
    pc = "returned" =>
        /\ ret.control_in_print = SelectSeq(curly_fields, ContainsControlWord)
        /\ ret.unclosed = SelectSeq(curly_fields, StrayAnnotation)

-----------------------------------------------------------------------------
(* generate_documents_batch over cells of every kind,                       *)
(* src/document_generator.py:190-262 with src/data_handler.py:175-212        *)

WAARDE == "Waarde"

\* cells of the first row: missing, text that is no date and no number, blank
\* text, number text, date text, the text "nan", numbers and a date
FirstRowCells ==
    {None, NaN, Str("abc"), Str(" "), Str("2,5"), Str("03/04/2024"), Str("nan"),
     PyInt(FALSE, "3"), PyFloat(FALSE, "3", "5"), Date(2024, 3, 5)}

LaterRowCells == {Str("abc"), Str("2,5"), NaN}

OneColumnFrames ==
    {[columns |-> <<WAARDE>>, rows |-> rs] :
        rs \in {<<[c \in {WAARDE} |-> v]>> : v \in FirstRowCells}
               \cup {<<[c \in {WAARDE} |-> v], [c \in {WAARDE} |-> w]>> :
                        v \in FirstRowCells, w \in LaterRowCells}}

FrameTexts(df) ==
    {strip(df.rows[i][WAARDE].s) : i \in {j \in DOMAIN df.rows : df.rows[j][WAARDE].kind = "str"}}

InitBatchFormat ==
    /\ pc = "generate_documents_batch"
    /\ df_data \in OneColumnFrames
    /\ field_mapping \in {[f \in {tf} |-> WAARDE] : tf \in {"Naam", "Bedrag", "Aantal_kinderen"}}
    /\ square_fields \in {<<>>, <<[Veldnaam |-> WAARDE, Opnemen |-> "True"]>>}
    /\ target_lang \in {"NL", "US"}
    /\ loc \in Locales
    /\ to_datetime \in
         {[t \in FrameTexts(df_data) |->
              [b \in BOOLEAN |-> IF t = "03/04/2024" THEN a ELSE NaT]] :
          a \in {NaT, Date(2024, 4, 3)}}
    /\ NoBatchCall
    /\ row = <<>> /\ context = <<>>
    /\ raw_value = None /\ template_field = ""
    /\ ret = None
    /\ NoNumCall /\ NoOrdCall
    /\ NoDateCall /\ NoMapCall /\ NoTemplateCall
    /\ NoWizardRun
    /\ generated_files = <<>>
    /\ today = 1
    /\ prefix = "Document"
    /\ primary_column = WAARDE
    /\ secondary_column = ""
    /\ primary_value = None /\ secondary_value = None

SpecBatchFormat == InitBatchFormat /\ [][NextBatch]_vars

(* C21 *)

\* neither a date nor a number
Unformattable(raw) == notna(raw) /\ ParsedDate(raw) = None /\ to_number(raw) = None

\* C21: in a batch over cells of every kind (text, number, date, missing) the
\* value formatted for a mapped field is a text: "" for a missing cell and
\* the raw string form for a cell that is neither a date nor a number; the
\* pass is left early only by the renderer, after the row's context was built,
\* and a pass that finishes has rendered every row.
C21_FormattingDegrades ==
    /\ pc = "aliases" =>
          \A tf \in DOMAIN field_mapping :
              LET raw == row.value[field_mapping[tf]]
              IN /\ Len(context[tf]) >= 0
                 /\ isna(raw) => context[tf] = ""
                 /\ Unformattable(raw) => context[tf] = str(raw)
    /\ pc = "raised" =>
          ret = create_context_from_row(row, field_mapping, square_fields, target_lang)
    /\ pc = "finished" => ret = Len(df_data.rows) /\ Len(rendered) = Len(df_data.rows)

C21_Witness ==
    /\ pc = "finished"
    /\ Len(df_data.rows) = 2
    /\ df_data.rows[1][WAARDE] = Str("abc")
    /\ df_data.rows[2][WAARDE] = Str("2,5")
    /\ field_mapping = [f \in {"Bedrag"} |-> WAARDE]
    /\ rendered[1]["Bedrag"] = "abc"
    /\ Len(rendered) = 2

-----------------------------------------------------------------------------
(* Placeholder checks before generation:                                    *)
(* validate_template_before_generation, src/document_generator.py:265-291,  *)
(* and render_preview_page, src/ui_pages.py:252-312.  An uploaded file is    *)
(* [kind |-> "docx", readable |-> whether Document() can open it,            *)
(*  document |-> what Document() returns].                                   *)

EmptyPart == [paragraphs |-> <<>>, tables |-> <<>>]

\* a document whose only content is one body paragraph
BodyOnly(para) ==
    [paragraphs |-> <<para>>, tables |-> <<>>,
     sections |-> <<[header |-> EmptyPart, footer |-> EmptyPart]>>]

Template(d) == [kind |-> "docx", readable |-> TRUE, document |-> d]

\* a file that is no Word document
Unreadable == [kind |-> "docx", readable |-> FALSE, document |-> BodyOnly(<<>>)]

\* extract_placeholders(file): Document(file) raises for an unreadable file
try_extract_placeholders(file) ==
    IF file.readable
    THEN [raised |-> FALSE, curly |-> extract_placeholders(file.document)[1],
          square |-> extract_placeholders(file.document)[2]]
    ELSE [raised |-> TRUE, curly |-> <<>>, square |-> <<>>]

\* lines 275-278 of document_generator.py and 269-272 of ui_pages.py:
\* try: curly_fields, _ = extract_placeholders(...) except Exception: []
curly_or_empty(extracted) == IF extracted.raised THEN <<>> ELSE extracted.curly

\* invalid_placeholders of lines 282 and 275
invalid_placeholders(file) ==
    SelectSeq(curly_or_empty(try_extract_placeholders(file)), is_invalid)

\* the list of error messages; the one message is given by the placeholders
\* it names
validate_template_before_generation(file) ==
    IF invalid_placeholders(file) # <<>>
    THEN <<[invalid_placeholders |-> invalid_placeholders(file)]>>
    ELSE <<>>

\* df_data is None or df_data.empty
no_rows(df) == df = None \/ df.rows = <<>>

MaxTemplatePieces == 2   \* most pieces of a template's paragraph

TemplatePieces ==
    {[kind |-> "text", s |-> "Beste "], [kind |-> "square", s |-> "Opt"],
     [kind |-> "curly", s |-> "Naam"], [kind |-> "curly", s |-> " row.Bedrag "],
     [kind |-> "curly", s |-> "Voornaam Klant"], [kind |-> "curly", s |-> "if"],
     [kind |-> "curly", s |-> "motif"], [kind |-> "curly", s |-> "naam | default('x'"]}

Templates ==
    {Template(BodyOnly(para)) :
        para \in UNION {[1..k -> TemplatePieces] : k \in 0..MaxTemplatePieces}}

UploadedFiles == Templates \cup {Unreadable}

OneRowData == [columns |-> <<"Naam">>, rows |-> <<[c \in {"Naam"} |-> Str("Jan")]>>]

InitPreflight ==
    /\ pc \in {"validate_template_before_generation", "render_preview_page"}
    /\ uploaded_template \in UploadedFiles
    /\ df_data = IF pc = "render_preview_page" THEN OneRowData ELSE <<>>
    /\ page = (IF pc = "render_preview_page" THEN "3" ELSE "4")
    /\ file_uploader = None /\ uploaded_data = None
    /\ single_form_fields = <<>> /\ uploaded_template_single = None
    /\ NoFileName
    /\ NoBatchCall
    /\ ret = None
    /\ NoNumCall /\ NoOrdCall /\ NoFmtCall /\ NoCtxCall /\ NoLocale
    /\ NoDateCall /\ NoMapCall /\ NoTemplateCall

ValidateTemplateBeforeGeneration ==
    /\ pc = "validate_template_before_generation"
    /\ ret' = validate_template_before_generation(uploaded_template)
    /\ pc' = "returned"
    /\ UNCHANGED <<page, uploaded_template, file_uploader, uploaded_data,
                   generated_files, today, prefix, primary_column, secondary_column,
                   primary_value, secondary_value,
                   single_form_fields, uploaded_template_single,
                   date, word_fields, headers, df_data, total_row, rows_all_with_total,
                   index, rendered, doc, name, curly_fields,
                   x, n, raw_value, template_field, target_lang, loc, to_datetime,
                   row, field_mapping, square_fields, context>>

\* ui_pages.py:256-283: the page stops on a missing template, on missing data
\* and on invalid placeholders, else goes on to the preview
PreviewPlaceholders ==
    /\ pc = "render_preview_page"
    /\ pc' = IF uploaded_template = None \/ no_rows(df_data)
                  \/ invalid_placeholders(uploaded_template) # <<>>
             THEN "stopped" ELSE "render_template_preview"
    /\ UNCHANGED <<page, uploaded_template, file_uploader, uploaded_data,
                   generated_files, today, prefix, primary_column, secondary_column,
                   primary_value, secondary_value,
                   single_form_fields, uploaded_template_single,
                   date, word_fields, headers, df_data, total_row, rows_all_with_total,
                   index, rendered, doc, name, curly_fields,
                   x, n, raw_value, template_field, target_lang, loc, to_datetime,
                   row, field_mapping, square_fields, context, ret>>

\* ui_pages.py:285-302: render_template_preview opens the file with Document()
\* (document_generator.py:128), which raises for an unreadable file
RenderTemplatePreview ==
    /\ pc = "render_template_preview"
    /\ pc' = IF uploaded_template.readable THEN "previewed" ELSE "raised"
    /\ UNCHANGED <<page, uploaded_template, file_uploader, uploaded_data,
                   generated_files, today, prefix, primary_column, secondary_column,
                   primary_value, secondary_value,
                   single_form_fields, uploaded_template_single,
                   date, word_fields, headers, df_data, total_row, rows_all_with_total,
                   index, rendered, doc, name, curly_fields,
                   x, n, raw_value, template_field, target_lang, loc, to_datetime,
                   row, field_mapping, square_fields, context, ret>>

NextPreflight == ValidateTemplateBeforeGeneration \/ PreviewPlaceholders \/ RenderTemplatePreview

SpecPreflight == InitPreflight /\ [][NextPreflight]_vars

(* C22 *)

\* C22: for a template that extract_placeholders cannot read, the check before
\* generation does not return the empty error list ("no errors"), and the
\* preview page does not get as far as showing a preview.
C22_ExtractionFailureIsFatal ==
    ~uploaded_template.readable =>
        /\ ~(pc = "returned" /\ ret = <<>>)
        /\ pc # "previewed"

-----------------------------------------------------------------------------
(* The wizard, src/mailMerge.py:30-49 and src/ui_pages.py:59-487.  One       *)
(* action is one interaction of the user and the script run it triggers.    *)
(* The pages 1-4 are written "1".."4".  A widget that a run does not render  *)
(* loses its value, so the uploaders are empty after a page change.          *)

\* variables that no page reads or writes
not_in_session ==
    <<x, n, raw_value, template_field, loc, to_datetime, row, context, date,
      word_fields, total_row, rows_all_with_total, index, rendered, doc, name,
      generated_files, today, primary_value, secondary_value>>

\* line 92 with only the 'invalid' list looked at
blocked_InvalidOnly(validation_results) == validation_results.invalid # <<>>

\* ui_pages.py:92: any(validation_results.values())
blocked(validation_results) ==
    \/ validation_results.invalid # <<>>
    \/ validation_results.control_in_print # <<>>
    \/ validation_results.unclosed # <<>>

\* ui_pages.py:65-93: the run of page 1 gets past st.stop()
page1_passes(file) ==
    /\ file # None
    /\ file.readable
    /\ ~blocked(validate_template_placeholders(extract_placeholders(file.document)[1]))

\* ui_pages.py:104: the supplementary fields as the data editor first shows them
square_editor(square) == [i \in DOMAIN square |-> [Veldnaam |-> square[i], Opnemen |-> "False"]]

\* ui_pages.py:156: the names of the selected supplementary fields
selected_square_fields(fields) ==
    LET sel == SelectSeq(fields, LAMBDA r : r.Opnemen = "True")
    IN [i \in DOMAIN sel |-> sel[i].Veldnaam]

\* an unreadable file, two templates without diagnostics (one with a
\* supplementary field) and one template for each kind of diagnostic
WizardFiles ==
    {Unreadable} \cup
    {Template(BodyOnly(para)) :
        para \in {<<[kind |-> "curly", s |-> "Naam"]>>,
                  <<[kind |-> "curly", s |-> "Naam"], [kind |-> "square", s |-> "Opt"]>>,
                  <<[kind |-> "curly", s |-> "Voornaam Klant"]>>,
                  <<[kind |-> "curly", s |-> "if"]>>,
                  <<[kind |-> "curly", s |-> "motif"]>>}}

DataFiles == {OneRowData, [columns |-> <<"Naam">>, rows |-> <<>>]}

InitWizard ==
    /\ pc = "idle"
    /\ page = "1"
    /\ uploaded_template = None /\ file_uploader = None /\ uploaded_data = None
    /\ single_form_fields = <<>> /\ uploaded_template_single = None
    /\ curly_fields = <<>> /\ square_fields = <<>>
    /\ df_data = None /\ headers = <<>> /\ field_mapping = <<>>
    /\ target_lang = "UK"
    /\ prefix = "" /\ primary_column = "" /\ secondary_column = ""
    /\ generated_files = <<>> /\ today = 0
    /\ primary_value = None /\ secondary_value = None
    /\ total_row = <<>> /\ rows_all_with_total = <<>> /\ index = 0 /\ rendered = <<>>
    /\ doc = <<>> /\ name = ""
    /\ row = <<>> /\ context = <<>>
    /\ raw_value = None /\ template_field = "" /\ to_datetime = <<>>
    /\ loc = C_LOCALE
    /\ ret = None
    /\ NoNumCall /\ NoOrdCall /\ NoDateCall /\ word_fields = <<>>

\* page 1, lines 63-120: a file is put into the uploader; a run that gets past
\* the diagnostics stores the editor's table of supplementary fields
UploadTemplate ==
    /\ pc = "idle" /\ page = "1"
    /\ \E file \in WizardFiles :
          /\ file_uploader' = file
          /\ square_fields' =
                IF page1_passes(file) /\ extract_placeholders(file.document)[2] # <<>>
                THEN square_editor(extract_placeholders(file.document)[2])
                ELSE square_fields
    /\ UNCHANGED <<not_in_session, pc, page, uploaded_template, uploaded_data,
                   single_form_fields, uploaded_template_single, curly_fields,
                   df_data, headers, field_mapping, target_lang,
                   prefix, primary_column, secondary_column, ret>>

\* page 1, lines 119-120: the user ticks or unticks a supplementary field
EditSquareFields ==
    /\ pc = "idle" /\ page = "1"
    /\ page1_passes(file_uploader)
    /\ extract_placeholders(file_uploader.document)[2] # <<>>
    /\ \E i \in DOMAIN square_fields :
          square_fields' =
              [square_fields EXCEPT ![i].Opnemen = IF @ = "True" THEN "False" ELSE "True"]
    /\ UNCHANGED <<not_in_session, pc, page, uploaded_template, file_uploader, uploaded_data,
                   single_form_fields, uploaded_template_single, curly_fields,
                   df_data, headers, field_mapping, target_lang,
                   prefix, primary_column, secondary_column, ret>>

\* page 1, lines 149-162
MakeSingleDocument ==
    /\ pc = "idle" /\ page = "1"
    /\ page1_passes(file_uploader)
    /\ single_form_fields' =
          extract_placeholders(file_uploader.document)[1] \o selected_square_fields(square_fields)
    /\ uploaded_template_single' = file_uploader
    /\ page' = "single"
    /\ file_uploader' = None
    /\ UNCHANGED <<not_in_session, pc, uploaded_template, uploaded_data, curly_fields,
                   square_fields, df_data, headers, field_mapping, target_lang,
                   prefix, primary_column, secondary_column, ret>>

\* page 1, lines 164-168
NextToData ==
    /\ pc = "idle" /\ page = "1"
    /\ page1_passes(file_uploader)
    /\ uploaded_template' = file_uploader
    /\ curly_fields' = extract_placeholders(file_uploader.document)[1]
    /\ page' = "2"
    /\ file_uploader' = None
    /\ UNCHANGED <<not_in_session, pc, uploaded_data, single_form_fields,
                   uploaded_template_single, square_fields, df_data, headers,
                   field_mapping, target_lang, prefix, primary_column, secondary_column, ret>>

\* page 2, lines 175-227: a data file is put into the uploader; the run stores
\* the headers and the mapping the user has chosen in the editor (the
\* suggested column or any other choice)
UploadData ==
    /\ pc = "idle" /\ page = "2"
    /\ \E data \in DataFiles :
          /\ uploaded_data' = data
          /\ headers' = data.columns
          /\ \E chosen \in [Range(curly_fields) -> {""} \cup Range(data.columns)] :
                field_mapping' = chosen
    /\ UNCHANGED <<not_in_session, pc, page, uploaded_template, file_uploader,
                   single_form_fields, uploaded_template_single, curly_fields,
                   square_fields, df_data, target_lang,
                   prefix, primary_column, secondary_column, ret>>

\* page 2, lines 241-243
BackToTemplate ==
    /\ pc = "idle" /\ page = "2"
    /\ uploaded_data # None
    /\ page' = "1"
    /\ uploaded_data' = None
    /\ UNCHANGED <<not_in_session, pc, uploaded_template, file_uploader,
                   single_form_fields, uploaded_template_single, curly_fields,
                   square_fields, df_data, headers, field_mapping, target_lang,
                   prefix, primary_column, secondary_column, ret>>

\* page 2, lines 245-249
NextToPreview ==
    /\ pc = "idle" /\ page = "2"
    /\ uploaded_data # None
    /\ df_data' = uploaded_data
    /\ headers' = uploaded_data.columns
    /\ page' = "3"
    /\ uploaded_data' = None
    /\ UNCHANGED <<not_in_session, pc, uploaded_template, file_uploader,
                   single_form_fields, uploaded_template_single, curly_fields,
                   square_fields, field_mapping, target_lang,
                   prefix, primary_column, secondary_column, ret>>

\* page 3, lines 256-302: the run reaches the buttons
preview_shown ==
    /\ uploaded_template # None
    /\ ~no_rows(df_data)
    /\ invalid_placeholders(uploaded_template) = <<>>
    /\ uploaded_template.readable

\* page 3, lines 306-308
BackToData ==
    /\ pc = "idle" /\ page = "3"
    /\ preview_shown
    /\ page' = "2"
    /\ UNCHANGED <<not_in_session, pc, uploaded_template, file_uploader, uploaded_data,
                   single_form_fields, uploaded_template_single, curly_fields,
                   square_fields, df_data, headers, field_mapping, target_lang,
                   prefix, primary_column, secondary_column, ret>>

\* page 3, lines 310-312
NextToSettings ==
    /\ pc = "idle" /\ page = "3"
    /\ preview_shown
    /\ page' = "4"
    /\ UNCHANGED <<not_in_session, pc, uploaded_template, file_uploader, uploaded_data,
                   single_form_fields, uploaded_template_single, curly_fields,
                   square_fields, df_data, headers, field_mapping, target_lang,
                   prefix, primary_column, secondary_column, ret>>

\* page 4, lines 320-322
ChooseLanguage ==
    /\ pc = "idle" /\ page = "4"
    /\ \E lang \in {"UK", "US", "NL"} : lang # target_lang /\ target_lang' = lang
    /\ UNCHANGED <<not_in_session, pc, page, uploaded_template, file_uploader, uploaded_data,
                   single_form_fields, uploaded_template_single, curly_fields,
                   square_fields, df_data, headers, field_mapping,
                   prefix, primary_column, secondary_column, ret>>

\* page 4, lines 351-353
BackToPreview ==
    /\ pc = "idle" /\ page = "4"
    /\ page' = "3"
    /\ UNCHANGED <<not_in_session, pc, uploaded_template, file_uploader, uploaded_data,
                   single_form_fields, uploaded_template_single, curly_fields,
                   square_fields, df_data, headers, field_mapping, target_lang,
                   prefix, primary_column, secondary_column, ret>>

\* page 4, lines 355-379: the check before generation passes and
\* generate_documents_batch is called with the widgets' values (the prefix
\* "Document", the first header, the first of the other headers)
GenerateDocuments ==
    /\ pc = "idle" /\ page = "4"
    /\ uploaded_template # None
    /\ validate_template_before_generation(uploaded_template) = <<>>
    /\ prefix' = "Document"
    /\ primary_column' = (IF headers = <<>> THEN "" ELSE headers[1])
    /\ secondary_column' = (IF Len(headers) < 2 THEN "" ELSE headers[2])
    /\ pc' = "generate_documents_batch"
    /\ UNCHANGED <<not_in_session, page, uploaded_template, file_uploader, uploaded_data,
                   single_form_fields, uploaded_template_single, curly_fields,
                   square_fields, df_data, headers, field_mapping, target_lang, ret>>

\* page 4, lines 381-458: the batch is over, by return or by an exception
GenerationEnds ==
    /\ pc = "generate_documents_batch"
    /\ pc' = "idle"
    /\ UNCHANGED <<not_in_session, page, uploaded_template, file_uploader, uploaded_data,
                   single_form_fields, uploaded_template_single, curly_fields,
                   square_fields, df_data, headers, field_mapping, target_lang,
                   prefix, primary_column, secondary_column, ret>>

\* the single document page, lines 485-487
BackToStart ==
    /\ pc = "idle" /\ page = "single"
    /\ page' = "1"
    /\ UNCHANGED <<not_in_session, pc, uploaded_template, file_uploader, uploaded_data,
                   single_form_fields, uploaded_template_single, curly_fields,
                   square_fields, df_data, headers, field_mapping, target_lang,
                   prefix, primary_column, secondary_column, ret>>

NextWizard ==
    \/ UploadTemplate \/ EditSquareFields \/ MakeSingleDocument \/ NextToData
    \/ UploadData \/ BackToTemplate \/ NextToPreview
    \/ BackToData \/ NextToSettings
    \/ ChooseLanguage \/ BackToPreview \/ GenerateDocuments \/ GenerationEnds
    \/ BackToStart

SpecWizard == InitWizard /\ [][NextWizard]_vars

(* C23 *)

\* C23: whenever batch generation has been started, the stored template is a
\* readable one whose curly fields give empty 'invalid', 'control_in_print'
\* and 'unclosed' lists.
C23_GenerationOnlyWhenResolved ==
    pc = "generate_documents_batch" =>
        /\ uploaded_template # None
        /\ uploaded_template.readable
        /\ LET results == validate_template_placeholders(
                              extract_placeholders(uploaded_template.document)[1])
           IN /\ results.invalid = <<>>
              /\ results.control_in_print = <<>>
              /\ results.unclosed = <<>>

\* generation started for a stored template with a mapped field, after the
\* language was changed on page 4
C23_Witness ==
    /\ pc = "generate_documents_batch"
    /\ uploaded_template.document.paragraphs = <<<<[kind |-> "curly", s |-> "Naam"]>>>>
    /\ curly_fields = <<"Naam">>
    /\ field_mapping = [f \in {"Naam"} |-> "Naam"]
    /\ target_lang = "NL"

-----------------------------------------------------------------------------
(* Supplementary (square-bracket) fields, src/data_handler.py:291-298 *)

\* the context as the mapping and alias passes leave it
BeforeSquareFields == AliasedContext(MappedContext(row, field_mapping, target_lang))

\* C24: in the returned context a supplementary field whose flag is True is a
\* key under its literal display name, holding format_field_value (display name
\* as hint) of the cell found in the normalized row under the normalized name,
\* or "" when no column has that normalized name; a supplementary field whose
\* flag is not True adds nothing: its name is a key only if the earlier passes
\* made it one, with the value they gave it.
C24_SquareFields ==
    pc = "returned" =>
        \A i \in DOMAIN square_fields :
            LET veldnaam == square_fields[i].Veldnaam
                fld_norm == normalize(veldnaam)
                norm_row == NormRow(row)
            IN IF \E j \in DOMAIN square_fields :
                      /\ square_fields[j].Veldnaam = veldnaam
                      /\ square_fields[j].Opnemen = "True"
               THEN /\ veldnaam \in DOMAIN ret
                    /\ ret[veldnaam] =
                         IF fld_norm \in DOMAIN norm_row
                         THEN format_field_value(norm_row[fld_norm], veldnaam, target_lang)
                         ELSE ""
               ELSE veldnaam \in DOMAIN ret =>
                        /\ veldnaam \in DOMAIN BeforeSquareFields
                        /\ ret[veldnaam] = BeforeSquareFields[veldnaam]

\* an included field "naam " found the cell of column "Naam" and is stored
\* under "naam " although no template field of that name is mapped
C24_Witness ==
    /\ pc = "returned"
    /\ square_fields = <<[Veldnaam |-> "naam ", Opnemen |-> "True"]>>
    /\ row.value["Naam"] = Str("Jan")
    /\ to_datetime["Jan"][TRUE] = NaT
    /\ "naam " \notin DOMAIN field_mapping
    /\ ret["naam "] = "Jan"

-----------------------------------------------------------------------------
(* rows_one, src/data_handler.py:300-301 and 113-132, for a row that also    *)
(* has missing cells, "nan" texts and a column whose header begins with row. *)

AliasColumns == <<"Naam", "Bedrag", "row.Naam">>

AliasColumnCells ==
    [c \in Range(AliasColumns) |->
        CASE c = "Naam" -> {Str("Jan"), NaN, Str(" NaN ")}
          [] c = "Bedrag" -> {Str("2024"), None, Str(" NaN ")}
          [] OTHER -> {Str("Jan"), Str("Piet")}]

AliasColumnRows ==
    {[index |-> AliasColumns, value |-> v] :
        v \in {w \in [Range(AliasColumns) -> UNION Range(AliasColumnCells)] :
                  \A c \in Range(AliasColumns) : w[c] \in AliasColumnCells[c]}}

AliasColumnMappings == {<<>>, [Naam |-> "Naam"], [Naam |-> "row.Naam"]}

InitAliasColumn ==
    /\ pc = "create_context_from_row"
    /\ row \in AliasColumnRows
    /\ field_mapping \in AliasColumnMappings
    /\ square_fields \in {<<>>, <<[Veldnaam |-> "Naam", Opnemen |-> "True"]>>}
    /\ target_lang = "NL"
    /\ loc = NL_LOCALE
    /\ to_datetime = [t \in RowTexts(row) |-> [b \in BOOLEAN |-> NaT]]
    /\ context = <<>>
    /\ ret = None
    /\ NoNumCall /\ NoOrdCall
    /\ raw_value = None /\ template_field = ""
    /\ NoOtherCall
    /\ NoLaterCall

SpecAliasColumn == InitAliasColumn /\ [][Next]_vars

\* what rows_one is to hold for a cell: "" for None, NaN and a text that reads
\* nan in any letter case with spaces around it ignored, else the cell
Blanked(v) ==
    IF v = None \/ v = NaN THEN Str("")
    ELSE IF v.kind = "str" /\ lower(strip(v.s)) = "nan" THEN Str("")
    ELSE v

\* rows_one is one mapping over the normalized names and their "row." forms
OneRowsMapping ==
    /\ "rows_one" \in DOMAIN ret
    /\ Len(ret["rows_one"]) = 1
    /\ DOMAIN ret["rows_one"][1] =
           DOMAIN NormRow(row) \cup {ROW_PREFIX \o k : k \in DOMAIN NormRow(row)}

\* C25 as stated: rows_one is one mapping that holds, for every field of the
\* normalized row, the bare key and the "row." key with the same value, the
\* cell with None, NaN and nan texts blanked.
C25_RowsOne ==
    pc = "returned" =>
        /\ OneRowsMapping
        /\ \A k \in DOMAIN NormRow(row) :
               /\ ret["rows_one"][1][k] = Blanked(NormRow(row)[k])
               /\ ret["rows_one"][1][ROW_PREFIX \o k] = Blanked(NormRow(row)[k])

\* k shares none of its two keys with another field of the normalized row
OwnKeys(k) ==
    \A other \in DOMAIN NormRow(row) \ {k} :
        /\ ROW_PREFIX \o other # k
        /\ ROW_PREFIX \o k # other

\* C25 amended: the same, for every field whose two keys are not also a key of
\* another field; a key that two fields write holds the blanked cell of the
\* field written last, fields taken in column order.
C25_RowsOneOwnKeys ==
    pc = "returned" =>
        /\ OneRowsMapping
        /\ \A k \in DOMAIN NormRow(row) :
               OwnKeys(k) =>
                   /\ ret["rows_one"][1][k] = Blanked(NormRow(row)[k])
                   /\ ret["rows_one"][1][ROW_PREFIX \o k] = Blanked(NormRow(row)[k])
        /\ \A i, j \in DOMAIN NormKeys(row) :
               (i < j /\ NormKeys(row)[j] = ROW_PREFIX \o NormKeys(row)[i]) =>
                   ret["rows_one"][1][NormKeys(row)[j]] = Blanked(NormRow(row)[NormKeys(row)[j]])

\* a " NaN " text was blanked under both keys of its own, and the key "row.naam"
\* that two columns write holds the cell of the column "row.Naam"
C25_Witness ==
    /\ pc = "returned"
    /\ row.value["Naam"] = NaN
    /\ row.value["Bedrag"] = Str(" NaN ")
    /\ row.value["row.Naam"] = Str("Piet")
    /\ ret["rows_one"][1]["naam"] = Str("")
    /\ ret["rows_one"][1]["bedrag"] = Str("")
    /\ ret["rows_one"][1]["row.bedrag"] = Str("")
    /\ ret["rows_one"][1]["row.naam"] = Str("Piet")
    /\ ret["rows_one"][1]["row.row.naam"] = Str("Piet")

-----------------------------------------------------------------------------
(* create_context_from_row called row after row, src/data_handler.py:259-303 *)
(* under src/document_generator.py:233-237                                   *)

InContextBuilder == pc \in {"create_context_from_row", "aliases", "square_fields", "rows_one"}

\* the context handed to the renderer for the i-th row, without the two keys
\* the batch adds to it afterwards
ReturnedFor(i) == [k \in DOMAIN rendered[i] \ {"rows_all", "rows"} |-> rendered[i][k]]

\* C26: no step of create_context_from_row changes the data row, the field
\* mapping or the supplementary field list, and a call whose row equals the row
\* of an earlier call of the pass (same mapping, same field list, same language)
\* returns a context equal to the one that call returned.
C26_Pure ==
    /\ [][InContextBuilder =>
             /\ row' = row
             /\ field_mapping' = field_mapping
             /\ square_fields' = square_fields
             /\ df_data' = df_data]_vars
    /\ [](pc = "returned" =>
             \A i \in 1..Len(rendered) :
                 df_data.rows[i] = row.value => ReturnedFor(i) = ret)

\* the second row of the frame equals the first one and its context, with a
\* mapped field and a supplementary field in it, has been returned
C26_Witness ==
    /\ pc = "returned"
    /\ Len(rendered) = 1
    /\ df_data.rows[1] = row.value
    /\ row.value["Bedrag"] = Str("2,5")
    /\ field_mapping = [Naam |-> "Bedrag"]
    /\ square_fields # <<>>
    /\ ret["Bedrag"] # ""

-----------------------------------------------------------------------------
(* The alias pass, src/data_handler.py:287-289 *)

\* C27: right after the alias pass the keys of the context are the mapped
\* template fields F and "row." + f for f in F, each alias holding the value of
\* the snapshot; when no template field begins with "row." no key begins with
\* "row.row.".
C27_AliasSnapshot ==
    pc = "square_fields" =>
        LET F == DOMAIN field_mapping
            snapshot == MappedContext(row, field_mapping, target_lang)
        IN /\ DOMAIN context = F \cup {ROW_PREFIX \o f : f \in F}
           /\ \A f \in F : context[ROW_PREFIX \o f] = snapshot[f]
           /\ (\A f \in F : ~startswith(f, ROW_PREFIX)) =>
                  \A k \in DOMAIN context : ~startswith(k, ROW_PREFIX \o ROW_PREFIX)

\* the alias pass has run over the one mapped field Naam
C27_Witness ==
    /\ pc = "square_fields"
    /\ field_mapping = [Naam |-> "Naam"]
    /\ row.value["Naam"] = Str("Jan")
    /\ to_datetime["Jan"][TRUE] = NaT
    /\ context = [k \in {"Naam", "row.Naam"} |-> "Jan"]

-----------------------------------------------------------------------------
(* One document's file name, src/document_generator.py:97-114 and 249-260 *)

\* a value longer than the value part may be, with unsafe characters before and
\* after the cut
LongValue ==
    "abcdefghij" \o "abcdefghij" \o "abcdefghij" \o "abcdefghij" \o "abcde/ghij" \o
    "abcdefghij" \o "abcdefghij" \o "abcdefghij" \o "abcdefg:ij"

\* what the text input of line 340 of ui_pages.py can hold
Prefixes == {"Document", "Brief 1/2", "Q&A: brief", ""}

\* what row.get hands over: a text, the missing-cell NaN, None
FileValues ==
    {Str("Jan"), Str(""), Str("  "), Str(" a/b:c "), Str("x_y"), Str(LongValue), NaN, None}

InitFilename ==
    /\ pc = "create_safe_filename"
    /\ prefix \in Prefixes
    /\ primary_value \in FileValues
    /\ secondary_value \in FileValues
    /\ today \in 1..MaxDay
    /\ generated_files = <<>>
    /\ primary_column = "" /\ secondary_column = ""
    /\ ret = None
    /\ NoNumCall /\ NoOrdCall /\ NoFmtCall /\ NoCtxCall /\ NoLocale
    /\ NoOtherCall
    /\ NoWizardRun

\* lines 250-254
CreateSafeFilename ==
    /\ pc = "create_safe_filename"
    /\ ret' = create_safe_filename(prefix, primary_value, secondary_value, today)
    /\ pc' = "returned"
    /\ UNCHANGED <<page, uploaded_template, file_uploader, uploaded_data,
                   generated_files, today, prefix, primary_column, secondary_column,
                   primary_value, secondary_value,
                   single_form_fields, uploaded_template_single,
                   date, word_fields, headers, df_data, total_row, rows_all_with_total,
                   index, rendered, doc, name, curly_fields,
                   x, n, raw_value, template_field, target_lang, loc, to_datetime,
                   row, field_mapping, square_fields, context>>

\* lines 255-259
SaveDocument ==
    /\ pc = "returned"
    /\ generated_files' = Append(generated_files, filepath(ret))
    /\ pc' = "saved"
    /\ UNCHANGED <<page, uploaded_template, file_uploader, uploaded_data,
                   today, prefix, primary_column, secondary_column,
                   primary_value, secondary_value,
                   single_form_fields, uploaded_template_single,
                   date, word_fields, headers, df_data, total_row, rows_all_with_total,
                   index, rendered, doc, name, curly_fields,
                   x, n, raw_value, template_field, target_lang, loc, to_datetime,
                   row, field_mapping, square_fields, context, ret>>

NextFilename == CreateSafeFilename \/ SaveDocument

SpecFilename == InitFilename /\ [][NextFilename]_vars

HasUnsafeChar(s) == \E i \in 1..Len(s) : Ch(s, i) \in UNSAFE_CHARS

\* the primary value is empty or missing
EmptyOrMissing(v) == v \in {Str(""), NaN, None}

\* the value part of a name: the text of the value with the unsafe characters
\* and underscores out of it, trimmed and cut
ValuePart(v) ==
    LET text == IF v = NaN THEN "nan" ELSE IF v = None THEN "None" ELSE v.s
        trimmed == strip(sub_unsafe(text))
    IN replace(SubSeq(trimmed, 1, IF Len(trimmed) > MAX_VALUE_LEN THEN MAX_VALUE_LEN
                                     ELSE Len(trimmed)), "_", " ")

\* C29: the name a document is saved under holds none of the characters
\* \ / * ? : " < > | whatever the prefix and the values are; its value part comes
\* from the primary value unless that is empty or missing, and then from the
\* secondary value; the value part has at most 80 characters.
C29_SafeFilename ==
    pc = "saved" =>
        LET saved == generated_files[Len(generated_files)]
            part == ValuePart(IF EmptyOrMissing(primary_value) THEN secondary_value
                              ELSE primary_value)
        IN /\ ~HasUnsafeChar(saved)
           /\ Len(part) <= MAX_VALUE_LEN
           /\ \E pre \in {prefix, filepath(prefix)} :
                  saved = pre \o " " \o part \o " " \o isoformat(today) \o ".docx"

\* the value part and the choice of the value taken by themselves
ValuePartIsSafe ==
    pc = "saved" =>
        LET saved == generated_files[Len(generated_files)]
            part == ValuePart(IF EmptyOrMissing(primary_value) THEN secondary_value
                              ELSE primary_value)
        IN /\ Len(part) <= MAX_VALUE_LEN
           /\ ~HasUnsafeChar(part)
           /\ saved = filepath(prefix) \o " " \o part \o " " \o isoformat(today) \o ".docx"

-----------------------------------------------------------------------------
(* The documents of one pass, src/document_generator.py:230-262 *)

\* C28: when the pass has finished over n rows the count is n, generated_files
\* has n names, the i-th being the name made for the i-th row, and the names
\* are pairwise distinct.
C28_OneDocumentPerRow ==
    pc = "finished" =>
        LET rows == Len(df_data.rows) IN
        /\ ret = rows
        /\ Len(generated_files) = rows
        /\ \A i \in 1..rows :
               \E d \in 1..MaxDay :
                   generated_files[i] =
                       filepath(create_safe_filename(prefix,
                                    row_get(iterrows(df_data, i), primary_column),
                                    row_get(iterrows(df_data, i), secondary_column), d))
        /\ \A i, j \in 1..rows : i # j => generated_files[i] # generated_files[j]

\* the count and the order of the names taken by themselves
NamesInRowOrder ==
    pc = "finished" =>
        LET rows == Len(df_data.rows) IN
        /\ ret = rows
        /\ Len(generated_files) = rows
        /\ \A i \in 1..rows :
               \E d \in 1..MaxDay :
                   generated_files[i] =
                       filepath(create_safe_filename(prefix,
                                    row_get(iterrows(df_data, i), primary_column),
                                    row_get(iterrows(df_data, i), secondary_column), d))

-----------------------------------------------------------------------------
(* Cells and totals of one column, src/data_handler.py:198-210 and 243-250, *)
(* in a pass of generate_documents_batch                                     *)

\* names of the second column: amount-like, number-like, both, neither
StyleColumns == {"Bedrag", "Aantal", "Count", "amount_number", "Aantal bedragen", "Prijs"}

\* a naming column and one column of numeric texts, mapped to the template
\* field of its own name
StyleRecords(c) ==
    {[col \in {"Naam", c} |-> IF col = "Naam" THEN Str("Jan") ELSE cell] :
        cell \in {Str("5"), Str("2,5")}}

StyleFrames ==
    UNION {{[columns |-> <<"Naam", c>>, rows |-> rs] :
               rs \in UNION {[1..k -> StyleRecords(c)] : k \in 0..MaxRows}} :
           c \in StyleColumns}

InitStyle ==
    /\ pc = "generate_documents_batch"
    /\ df_data \in StyleFrames
    /\ field_mapping = [f \in {df_data.columns[2]} |-> df_data.columns[2]]
    /\ square_fields = <<>>
    /\ target_lang = "NL"
    /\ loc \in Locales
    /\ to_datetime = [t \in BatchTexts |-> [b \in BOOLEAN |-> NaT]]
    /\ NoBatchCall
    /\ row = <<>> /\ context = <<>>
    /\ raw_value = None /\ template_field = ""
    /\ ret = None
    /\ NoNumCall /\ NoOrdCall
    /\ NoDateCall /\ NoMapCall /\ NoTemplateCall
    /\ NoWizardRun
    /\ generated_files = <<>>
    /\ today = 1
    /\ prefix = "Document"
    /\ primary_column = "Naam"
    /\ secondary_column = df_data.columns[2]
    /\ primary_value = None /\ secondary_value = None

SpecStyle == InitStyle /\ [][NextBatch]_vars

\* the cells of column c as the documents of the pass show them
ShownCells(c) == {rendered[i][c] : i \in DOMAIN rendered}

\* C30: when the pass has finished, a column whose cells were all shown as
\* currency (euro sign) has its total shown as currency, and a number-like
\* column, whose cells are shown in the no-decimals style without euro sign,
\* has its total shown without euro sign, as a whole number when all its cells
\* are whole numbers.
C30_StylesAgree ==
    (pc = "finished" /\ rendered # <<>>) =>
        LET c == df_data.columns[2]
            total == total_row[c]
        IN /\ (\A cell \in ShownCells(c) : startswith(cell, EURO)) => startswith(total, EURO)
           /\ IsNumberLike(lower(c)) =>
                  /\ \A cell \in ShownCells(c) : ~startswith(cell, EURO)
                  /\ ~startswith(total, EURO)
                  /\ (\A cell \in ShownCells(c) : IntegerOnly(cell)) => IntegerOnly(total)

\* the same for the columns that are not both amount-like and number-like
StylesAgreeUnlessBoth ==
    (pc = "finished" /\ rendered # <<>>
        /\ ~(IsNumberLike(lower(df_data.columns[2])) /\ IsAmountLike(lower(df_data.columns[2])))) =>
        LET c == df_data.columns[2]
            total == total_row[c]
        IN /\ (\A cell \in ShownCells(c) : startswith(cell, EURO)) => startswith(total, EURO)
           /\ IsNumberLike(lower(c)) =>
                  /\ \A cell \in ShownCells(c) : ~startswith(cell, EURO)
                  /\ ~startswith(total, EURO)
                  /\ (\A cell \in ShownCells(c) : IntegerOnly(cell)) => IntegerOnly(total)

====
